---- MODULE Spec2Model ----
(***************************************************************************)
(* Brussels food map: the scoring and reranking engine                     *)
(* (src/src/brussels_reranking.py, src/src/brussels_context.py,            *)
(* src/src/features.py, src/src/afsca_hygiene.py).                         *)
(*                                                                         *)
(* Numbers.  The Python code computes with IEEE doubles.  The model uses   *)
(* fixed point: a score s is the integer s * SCALE (SCALE = 10^4, so one   *)
(* unit is 0.0001), a rating r is the integer 10 * r (tenths of a star),   *)
(* a residual is in hundredths, a distance is in metres and a coordinate   *)
(* in 10^-4 degrees (the precision of every coordinate of the city         *)
(* context).  Every product is followed by a floor division, so a modelled *)
(* component is within a few units (a few 10^-4) of the double the code    *)
(* computes; all intermediate values stay below 2^31.                      *)
(***************************************************************************)
EXTENDS Integers, Sequences, FiniteSets, TLC

\* Fixed-point unit: the integer SCALE stands for the real number 1.0.
SCALE == 10000

Min(a, b) == IF a <= b THEN a ELSE b
Max(a, b) == IF a >= b THEN a ELSE b
Abs(a) == IF a >= 0 THEN a ELSE -a

\* LET x == v IN Body(x), with v evaluated once and before Body.
Let(v, Body(_)) == CHOOSE r \in {Body(x) : x \in {v}} : TRUE

\* The elements of a sequence.
Range(s) == {s[k] : k \in 1..Len(s)}

\* Product of two fixed-point numbers.
Mul(a, b) == IF a * b >= 0 THEN (a * b) \div SCALE ELSE -((-(a * b)) \div SCALE)

----------------------------------------------------------------------------
(* math.sqrt, math.exp on fixed-point arguments *)

RECURSIVE IsqrtIter(_, _)
IsqrtIter(n, x) ==
    LET y == (x + n \div x) \div 2
    IN  IF y >= x THEN x ELSE IsqrtIter(n, y)

\* floor(sqrt(n)) by Newton's iteration.
Isqrt(n) == IF n <= 0 THEN 0 ELSE IsqrtIter(n, n)

\* exp(-y) for 0 <= y <= 1/2 (y and the result in fixed point): Taylor series.
ExpNegSmall(y) ==
    LET y2 == Mul(y, y)
        y3 == Mul(y2, y)
        y4 == Mul(y3, y)
        y5 == Mul(y4, y)
        y6 == Mul(y5, y)
    IN  SCALE - y + (y2 \div 2) - (y3 \div 6) + (y4 \div 24) - (y5 \div 120)
              + (y6 \div 720)

RECURSIVE ExpNeg(_)
\* math.exp(-y) for y >= 0: halve the argument down to [0, 1/2], square back.
ExpNeg(y) ==
    IF y <= SCALE \div 2
    THEN ExpNegSmall(y)
    ELSE LET h == ExpNeg(y \div 2)
             e == Mul(h, h)
         IN  IF y % 2 = 0 THEN e ELSE e - (e \div SCALE)

----------------------------------------------------------------------------
(* STATISTICAL UTILITY FUNCTIONS *)

\* sigmoid(x, center, steepness) = 1 / (1 + exp(-steepness * (x - center))).
\* x and center are review counts (integers); steepS is steepness * SCALE.
sigmoid(x, center, steepS) ==
    LET z == steepS * (x - center)
    IN  IF z >= 0
        THEN (SCALE * SCALE) \div (SCALE + ExpNeg(z))
        ELSE LET e == ExpNeg(-z) IN (e * SCALE) \div (SCALE + e)

\* confidence_weight(review_count, min_reviews=10, half_confidence=50)
confidence_weight(review_count) ==
    IF review_count < 10
    THEN (3000 * review_count) \div 10
    ELSE SCALE - Isqrt(((SCALE * SCALE) \div (50 + review_count)) * 50)

----------------------------------------------------------------------------
(* Strings.  A Python str is modelled as the sequence of its characters,   *)
(* each a one-character string, so that lower(), strip(), the `in` test    *)
(* and re.search/re.match are computed character by character.             *)

Str == Seq(STRING)

UpperToLower ==
    [c \in {"A","B","C","D","E","F","G","H","I","J","K","L","M","N","O","P",
            "Q","R","S","T","U","V","W","X","Y","Z"} |->
       CASE c = "A" -> "a" [] c = "B" -> "b" [] c = "C" -> "c" [] c = "D" -> "d"
         [] c = "E" -> "e" [] c = "F" -> "f" [] c = "G" -> "g" [] c = "H" -> "h"
         [] c = "I" -> "i" [] c = "J" -> "j" [] c = "K" -> "k" [] c = "L" -> "l"
         [] c = "M" -> "m" [] c = "N" -> "n" [] c = "O" -> "o" [] c = "P" -> "p"
         [] c = "Q" -> "q" [] c = "R" -> "r" [] c = "S" -> "s" [] c = "T" -> "t"
         [] c = "U" -> "u" [] c = "V" -> "v" [] c = "W" -> "w" [] c = "X" -> "x"
         [] c = "Y" -> "y" [] c = "Z" -> "z"]
    @@ ("U+00C6" :> "U+00E6") @@ ("U+00D8" :> "U+00F8")
    @@ ("U+00C0" :> "U+00E0") @@ ("U+00C7" :> "U+00E7") @@ ("U+00C8" :> "U+00E8")
    @@ ("U+00C9" :> "U+00E9") @@ ("U+00CA" :> "U+00EA") @@ ("U+00D4" :> "U+00F4")

AsciiLower ==
    {"a","b","c","d","e","f","g","h","i","j","k","l","m","n","o","p","q","r",
     "s","t","u","v","w","x","y","z"}

Digits == {"0","1","2","3","4","5","6","7","8","9"}

\* A character outside ASCII is written as the token "U+XXXX" of its code
\* point.  NonWordChars are the characters of the names and patterns that are
\* not word characters (\w) for Python's re: white space, punctuation, symbols.
NonWordChars ==
    {" ", "'", "&", "-", ".", ",", "(", ")", "/", "|", "#", "!", ":", "+",
     "U+00A2", "U+00A9", "U+00AE", "U+2020", "U+2122", "U+221A", "U+2265"}

SpaceChars == {" "}

IsWordChar(c) == c \notin NonWordChars
IsSpace(c) == c \in SpaceChars

\* str.lower()
Lower(s) ==
    [i \in 1..Len(s) |->
        IF s[i] \in DOMAIN UpperToLower THEN UpperToLower[s[i]] ELSE s[i]]

RECURSIVE LStrip(_)
LStrip(s) == IF s # <<>> /\ IsSpace(Head(s)) THEN LStrip(Tail(s)) ELSE s

RECURSIVE RStrip(_)
RStrip(s) ==
    IF s # <<>> /\ IsSpace(s[Len(s)]) THEN RStrip(SubSeq(s, 1, Len(s) - 1)) ELSE s

\* str.strip()
Strip(s) == RStrip(LStrip(s))

\* s[i .. i+Len(sub)-1] = sub
OccursAt(sub, s, i) ==
    /\ i >= 1
    /\ i + Len(sub) - 1 <= Len(s)
    /\ \A k \in 1..Len(sub) : s[i + k - 1] = sub[k]

\* Python's `sub in s`
Contains(s, sub) == \E i \in 1..(Len(s) - Len(sub) + 1) : OccursAt(sub, s, i)

\* str.startswith
StartsWith(s, sub) == OccursAt(sub, s, 1)

(* Regular expressions.  A pattern is a record [pre, body, post]: body is a *)
(* sequence of tokens, each a literal character or one of the tokens below; *)
(* pre is "" (none), "b" (\b) or "^"; post is "", "b" (\b) or "$".          *)
TokWS0 == "WS*"    \* \s*
TokWS1 == "WS+"    \* \s+
TokW1 == "W+"      \* \w+
TokAmpN == "[&n]"  \* [&n]

\* \b at the gap before s[i] (i in 1..Len(s)+1)
WordBoundary(s, i) ==
    LET before == i > 1 /\ IsWordChar(s[i - 1])
        after == i <= Len(s) /\ IsWordChar(s[i])
    IN  before # after

RECURSIVE MatchEnds(_, _, _, _)
\* The positions j such that body[k..] matches s[i .. j-1].
MatchEnds(body, k, s, i) ==
    IF k > Len(body) THEN {i}
    ELSE LET t == body[k]
             more == i <= Len(s)
         IN  CASE t = TokWS0 ->
                    MatchEnds(body, k + 1, s, i) \cup
                    (IF more /\ IsSpace(s[i]) THEN MatchEnds(body, k, s, i + 1) ELSE {})
               [] t = TokWS1 ->
                    IF more /\ IsSpace(s[i])
                    THEN MatchEnds(body, k + 1, s, i + 1) \cup MatchEnds(body, k, s, i + 1)
                    ELSE {}
               [] t = TokW1 ->
                    IF more /\ IsWordChar(s[i])
                    THEN MatchEnds(body, k + 1, s, i + 1) \cup MatchEnds(body, k, s, i + 1)
                    ELSE {}
               [] t = TokAmpN ->
                    IF more /\ s[i] \in {"&", "n"}
                    THEN MatchEnds(body, k + 1, s, i + 1) ELSE {}
               [] OTHER ->
                    IF more /\ s[i] = t THEN MatchEnds(body, k + 1, s, i + 1) ELSE {}

\* The pattern matches s starting at position i.
MatchesAt(pat, s, i) ==
    /\ CASE pat.pre = "^" -> i = 1
         [] pat.pre = "b" -> WordBoundary(s, i)
         [] OTHER -> TRUE
    /\ \E j \in MatchEnds(pat.body, 1, s, i) :
          CASE pat.post = "$" -> j = Len(s) + 1
            [] pat.post = "b" -> WordBoundary(s, j)
            [] OTHER -> TRUE

\* re.search(pattern, s)
ReSearch(pat, s) == \E i \in 1..(Len(s) + 1) : MatchesAt(pat, s, i)

\* re.match(pattern, s)
ReMatch(pat, s) == MatchesAt(pat, s, 1)

\* A plain literal as a pattern.
Lit(chars) == [pre |-> "", body |-> chars, post |-> ""]

----------------------------------------------------------------------------
(* CITY CONTEXT: the tables of brussels_context.py and features.py.        *)
(* Weights are in fixed point, coordinates in 10^-4 degrees.               *)

\* features.py CHAIN_PATTERNS (regular expressions, searched in name.lower())
FEATURES_CHAIN_PATTERNS ==
    <<
      [pre |-> "", body |-> <<"m","c","d","o","n","a","l","d">>, post |-> ""],
      [pre |-> "", body |-> <<"b","u","r","g","e","r"," ","k","i","n","g">>, post |-> ""],
      [pre |-> "", body |-> <<"q","u","i","c","k">>, post |-> ""],
      [pre |-> "", body |-> <<"k","f","c">>, post |-> ""],
      [pre |-> "", body |-> <<"s","u","b","w","a","y">>, post |-> ""],
      [pre |-> "", body |-> <<"d","o","m","i","n","o">>, post |-> ""],
      [pre |-> "", body |-> <<"p","i","z","z","a"," ","h","u","t">>, post |-> ""],
      [pre |-> "", body |-> <<"s","t","a","r","b","u","c","k","s">>, post |-> ""],
      [pre |-> "", body |-> <<"p","a","n","o","s">>, post |-> ""],
      [pre |-> "", body |-> <<"e","x","k","i">>, post |-> ""],
      [pre |-> "", body |-> <<"l","e"," ","p","a","i","n"," ","q","u","o","t","i","d","i","e","n">>, post |-> ""],
      [pre |-> "", body |-> <<"p","a","u","l">>, post |-> ""],
      [pre |-> "", body |-> <<"c","l","a","s","s","'","c","r","o","u","t","e">>, post |-> ""],
      [pre |-> "", body |-> <<"p","i","z","z","a"," ","e","x","p","r","e","s","s">>, post |-> ""],
      [pre |-> "", body |-> <<"v","a","p","i","a","n","o">>, post |-> ""],
      [pre |-> "", body |-> <<"w","a","g","a","m","a","m","a">>, post |-> ""],
      [pre |-> "", body |-> <<"n","a","n","d","o">>, post |-> ""],
      [pre |-> "", body |-> <<"f","i","v","e"," ","g","u","y","s">>, post |-> ""],
      [pre |-> "", body |-> <<"p","i","t","a","y","a">>, post |-> ""],
      [pre |-> "", body |-> <<"w","o","k">>, post |-> ""],
      [pre |-> "", body |-> <<"s","u","s","h","i"," ","s","h","o","p">>, post |-> ""],
      [pre |-> "", body |-> <<"p","l","a","n","e","t"," ","s","u","s","h","i">>, post |-> ""],
      [pre |-> "", body |-> <<"b","a","v","e","t">>, post |-> ""],
      [pre |-> "", body |-> <<"b","a","l","l","s"," ","&"," ","g","l","o","r","y">>, post |-> ""],
      [pre |-> "", body |-> <<"e","l","l","i","s">>, post |-> ""],
      [pre |-> "", body |-> <<"f","r","e","d"," ","&"," ","g","i","n","g","e","r">>, post |-> ""],
      [pre |-> "", body |-> <<"l","a"," ","b","r","a","s","s","e","r","i","e">>, post |-> ""],
      [pre |-> "", body |-> <<"o","t","o","m","a","t">>, post |-> ""],
      [pre |-> "", body |-> <<"m","a","n","h","a","t","t","n">>, post |-> ""],
      [pre |-> "", body |-> <<"i","l"," ","f","i","o","r","e">>, post |-> ""],
      [pre |-> "", body |-> <<"d","e","l","i","t","r","a","i","t","e","u","r">>, post |-> ""]
    >>

\* features.py EXCLUDE_PATTERNS
EXCLUDE_PATTERNS ==
    <<
      [pre |-> "", body |-> <<"c","a","r","r","e","f","o","u","r">>, post |-> ""],
      [pre |-> "", body |-> <<"d","e","l","h","a","i","z","e">>, post |-> ""],
      [pre |-> "", body |-> <<"c","o","l","r","u","y","t">>, post |-> ""],
      [pre |-> "", body |-> <<"a","l","d","i">>, post |-> "b"],
      [pre |-> "", body |-> <<"l","i","d","l">>, post |-> ""],
      [pre |-> "", body |-> <<"p","r","o","x","y">>, post |-> ""],
      [pre |-> "b", body |-> <<"h","o","t","e","l">>, post |-> "b"],
      [pre |-> "b", body |-> <<"h","U+00F4","t","e","l">>, post |-> "b"],
      [pre |-> "", body |-> <<"t","h","e","r","m","e","n">>, post |-> ""],
      [pre |-> "", body |-> <<"w","e","l","l","n","e","s","s">>, post |-> ""]
    >>

\* features.py EXCLUDE_TYPES
EXCLUDE_TYPES ==
    {
      "supermarket", "grocery_store", "convenience_store", "hotel", "motel",
      "hostel", "lodging", "sauna", "spa", "gym", "fitness_center",
      "beauty_salon", "hair_salon", "wellness_center", "massage",
      "public_bath", "furniture_store", "home_goods_store",
      "home_improvement_store", "clothing_store", "shopping_mall",
      "department_store", "movie_theater", "night_club", "casino"
    }

\* brussels_context.py CHAIN_PATTERNS
CHAIN_PATTERNS ==
    <<
      [pre |-> "", body |-> <<"m","c","d","o","n","a","l","d">>, post |-> ""],
      [pre |-> "", body |-> <<"b","u","r","g","e","r"," ","k","i","n","g">>, post |-> ""],
      [pre |-> "", body |-> <<"q","u","i","c","k">>, post |-> ""],
      [pre |-> "", body |-> <<"k","f","c">>, post |-> ""],
      [pre |-> "", body |-> <<"s","u","b","w","a","y">>, post |-> ""],
      [pre |-> "", body |-> <<"d","o","m","i","n","o">>, post |-> ""],
      [pre |-> "", body |-> <<"p","i","z","z","a"," ","h","u","t">>, post |-> ""],
      [pre |-> "", body |-> <<"s","t","a","r","b","u","c","k","s">>, post |-> ""],
      [pre |-> "", body |-> <<"p","a","n","o","s">>, post |-> ""],
      [pre |-> "", body |-> <<"e","x","k","i">>, post |-> ""],
      [pre |-> "", body |-> <<"l","e"," ","p","a","i","n"," ","q","u","o","t","i","d","i","e","n">>, post |-> ""],
      [pre |-> "", body |-> <<"p","a","u","l">>, post |-> ""],
      [pre |-> "", body |-> <<"c","l","a","s","s","'","c","r","o","u","t","e">>, post |-> ""],
      [pre |-> "", body |-> <<"p","i","z","z","a"," ","e","x","p","r","e","s","s">>, post |-> ""],
      [pre |-> "", body |-> <<"v","a","p","i","a","n","o">>, post |-> ""],
      [pre |-> "", body |-> <<"w","a","g","a","m","a","m","a">>, post |-> ""],
      [pre |-> "", body |-> <<"n","a","n","d","o">>, post |-> ""],
      [pre |-> "", body |-> <<"f","i","v","e"," ","g","u","y","s">>, post |-> ""],
      [pre |-> "", body |-> <<"p","i","t","a","y","a">>, post |-> ""],
      [pre |-> "", body |-> <<"s","u","s","h","i"," ","s","h","o","p">>, post |-> ""],
      [pre |-> "", body |-> <<"p","l","a","n","e","t"," ","s","u","s","h","i">>, post |-> ""],
      [pre |-> "", body |-> <<"b","a","v","e","t">>, post |-> ""],
      [pre |-> "", body |-> <<"b","a","l","l","s"," ","&"," ","g","l","o","r","y">>, post |-> ""],
      [pre |-> "", body |-> <<"e","l","l","i","s"," ","g","o","u","r","m","e","t">>, post |-> ""],
      [pre |-> "", body |-> <<"m","a","n","h","a","t","t","n">>, post |-> ""],
      [pre |-> "", body |-> <<"d","e","l","i","t","r","a","i","t","e","u","r">>, post |-> ""],
      [pre |-> "", body |-> <<"o","'","t","a","c","o","s">>, post |-> ""],
      [pre |-> "b", body |-> <<"f","r","i","t","l","a","n","d">>, post |-> "b"],
      [pre |-> "", body |-> <<"o","a","k","b","e","r","r","y">>, post |-> ""]
    >>

\* brussels_context.py NON_RESTAURANT_SHOPS
NON_RESTAURANT_SHOPS ==
    <<
      [pre |-> "b", body |-> <<"c","o","r","n","U+221A","U+00A9">>, post |-> "b"],
      [pre |-> "b", body |-> <<"c","o","r","n","e"," ","d","y","n","a","s","t","i","e">>, post |-> "b"],
      [pre |-> "b", body |-> <<"n","e","u","h","a","u","s">>, post |-> "b"],
      [pre |-> "b", body |-> <<"g","o","d","i","v","a">>, post |-> "b"],
      [pre |-> "b", body |-> <<"l","e","o","n","i","d","a","s">>, post |-> "b"],
      [pre |-> "b", body |-> <<"p","i","e","r","r","e"," ","m","a","r","c","o","l","i","n","i">>, post |-> "b"],
      [pre |-> "b", body |-> <<"m","a","r","c","o","l","i","n","i">>, post |-> "b"],
      [pre |-> "b", body |-> <<"g","a","l","l","e","r">>, post |-> "b"],
      [pre |-> "b", body |-> <<"w","i","t","t","a","m","e","r">>, post |-> "b"],
      [pre |-> "b", body |-> <<"m","a","r","y"," ","c","h","o","c","o","l","a","t","i","e","r">>, post |-> "b"],
      [pre |-> "b", body |-> <<"p","l","a","n","U+221A","U+00AE","t","e"," ","c","h","o","c","o","l","a","t">>, post |-> "b"],
      [pre |-> "b", body |-> <<"f","r","e","d","e","r","i","c"," ","b","l","o","n","d","e","e","l">>, post |-> "b"],
      [pre |-> "b", body |-> <<"c","h","o","c","o","l","a","t","i","e","r">>, post |-> "b"],
      [pre |-> "b", body |-> <<"c","h","o","c","o","l","a","t","e"," ","s","h","o","p">>, post |-> "b"],
      [pre |-> "b", body |-> <<"p","r","a","l","i","n","e","s">>, post |-> "b"],
      [pre |-> "b", body |-> <<"s","p","e","k",TokWS0,TokAmpN,TokWS0,"b","o","o","n","e","n">>, post |-> "b"],
      [pre |-> "^", body |-> <<"s","h","e","l","l">>, post |-> "$"],
      [pre |-> "^", body |-> <<"t","o","t","a","l","e","n","e","r","g","i","e","s">>, post |-> "b"],
      [pre |-> "^", body |-> <<"e","s","s","o">>, post |-> "$"],
      [pre |-> "^", body |-> <<"l","u","k","o","i","l">>, post |-> "b"],
      [pre |-> "^", body |-> <<"t","e","x","a","c","o">>, post |-> "$"],
      [pre |-> "^", body |-> <<"q","8">>, post |-> "$"],
      [pre |-> "^", body |-> <<"g","u","l","f">>, post |-> "$"],
      [pre |-> "b", body |-> <<"t","a","n","k","s","t","a","t","i","o","n">>, post |-> "b"]
    >>

\* brussels_context.py MICHELIN_STARS, in the dict's order: <<pattern, stars>>
MICHELIN_STARS ==
    <<
      <<<<"b","o","n"," ","b","o","n">>, 2>>,
      <<<<"c","o","m","m","e"," ","c","h","e","z"," ","s","o","i">>, 2>>,
      <<<<"l","'","a","i","r"," ","d","u"," ","t","e","m","p","s">>, 2>>,
      <<<<"a","i","r"," ","d","u"," ","t","e","m","p","s">>, 2>>,
      <<<<"b","o","z","a","r"," ","r","e","s","t","a","u","r","a","n","t">>, 2>>,
      <<<<"k","a","r","e","n"," ","t","o","r","o","s","y","a","n">>, 2>>,
      <<<<"s","a","n","z","a","r","u">>, 1>>,
      <<<<"s","a","n"," ">>, 1>>,
      <<<<"l","a"," ","v","i","l","l","a"," ","e","m","i","l","y">>, 1>>,
      <<<<"v","i","l","l","a"," ","e","m","i","l","y">>, 1>>,
      <<<<"k","w","i","n","t">>, 1>>,
      <<<<"t","o","s","h","i","r","o">>, 1>>,
      <<<<"l","a"," ","v","i","l","l","a"," ","i","n"," ","t","h","e"," ","s","k","y">>, 1>>,
      <<<<"v","i","l","l","a"," ","i","n"," ","t","h","e"," ","s","k","y">>, 1>>,
      <<<<"r","o","u","g","e"," ","t","o","m","a","t","e">>, 1>>,
      <<<<"k","a","m","o">>, 1>>,
      <<<<"n","u","a","n","c","e"," ","b","y"," ","n","u","t","r","i">>, 1>>,
      <<<<"n","u","a","n","c","e"," ","n","u","t","r","i">>, 1>>,
      <<<<"s","e","a"," ","g","r","i","l","l">>, 1>>,
      <<<<"l","'","U+221A","U+00A9","c","r","i","n">>, 1>>,
      <<<<"e","c","r","i","n">>, 1>>,
      <<<<"a","u","x"," ","a","r","m","e","s"," ","d","e"," ","b","r","u","x","e","l","l","e","s">>, 1>>,
      <<<<"o","r","p","h","y","s","e"," ","c","h","a","u","s","s","e","t","t","e">>, 1>>,
      <<<<"h","u","m","p","h","r","e","y">>, 1>>,
      <<<<"a","l","e","x","a","n","d","r","e">>, 1>>,
      <<<<"l","e"," ","c","h","a","l","e","t"," ","d","e"," ","l","a"," ","f","o","r","U+221A","U+2122","t">>, 1>>,
      <<<<"c","h","a","l","e","t"," ","d","e"," ","l","a"," ","f","o","r","U+221A","U+2122","t">>, 1>>,
      <<<<"r","o","b","e","r","t","o">>, 1>>,
      <<<<"l","o","l","a">>, 1>>,
      <<<<"s","a","n"," ","d","e","g","e","i","m","b","r","e">>, 1>>,
      <<<<"l","'","a","t","e","l","i","e","r"," ","d","e"," ","b","o","s","s","i","m","U+221A","U+00A9">>, 1>>,
      <<<<"a","t","e","l","i","e","r"," ","d","e"," ","b","o","s","s","i","m","e">>, 1>>,
      <<<<"b","a","r","g","e">>, 1>>,
      <<<<"d","a"," ","m","i","m","m","o">>, 1>>,
      <<<<"e","l","i","a","n","e">>, 1>>,
      <<<<"h","u","m","u","s"," ","x"," ","h","o","r","t","e","n","s","e">>, 1>>,
      <<<<"h","u","m","u","s"," ","h","o","r","t","e","n","s","e">>, 1>>,
      <<<<"l","e"," ","p","i","g","e","o","n"," ","n","o","i","r">>, 1>>,
      <<<<"p","i","g","e","o","n"," ","n","o","i","r">>, 1>>,
      <<<<"m","e","n","s","s","a">>, 1>>,
      <<<<"s","e","n","z","a","n","o","m","e">>, 1>>
    >>

\* brussels_context.py BIB_GOURMAND
BIB_GOURMAND ==
    <<
      <<"j","b">>,
      <<"j","b"," ","s","u","s","h","i">>,
      <<"s","e","l","e","c","t","o">>,
      <<"l","e"," ","s","e","l","e","c","t","o">>,
      <<"s","t","r","o","f","i","l","i","a">>,
      <<"k","l","i","n","e">>,
      <<"l","e","s"," ","f","i","l","l","e","s">>,
      <<"t","e","r","o">>,
      <<"r","o","u","g","e"," ","t","o","m","a","t","e">>,
      <<"h","u","m","p","h","r","e","y">>,
      <<"w","i","n","e"," ","b","a","r"," ","d","e","s"," ","m","a","r","o","l","l","e","s">>,
      <<"l","e"," ","w","i","n","e"," ","b","a","r"," ","d","e","s"," ","m","a","r","o","l","l","e","s">>,
      <<"b","a","r","g","e">>,
      <<"c","r","a","b"," ","c","l","u","b">>,
      <<"h","u","m","u","s"," ","x"," ","h","o","r","t","e","n","s","e">>,
      <<"h","u","m","u","s"," ","h","o","r","t","e","n","s","e">>,
      <<"l","a"," ","b","o","n","n","e"," ","c","h","U+221A","U+00AE","r","e">>,
      <<"b","o","n","n","e"," ","c","h","e","r","e">>,
      <<"f","a","u","b","o","u","r","g"," ","s","a","i","n","t","-","a","n","t","o","i","n","e">>,
      <<"f","a","u","b","o","u","r","g"," ","s","a","i","n","t"," ","a","n","t","o","i","n","e">>,
      <<"l","e"," ","r","a","b","a","s","s","i","e","r">>,
      <<"r","a","b","a","s","s","i","e","r">>,
      <<"y","o","k","a"," ","t","o","m","o">>,
      <<"y","o","k","a","t","o","m","o">>,
      <<"l","u","n","e"," ","s","i","a","m","o","i","s","e">>,
      <<"c","a","r"," ","b","o","n">>,
      <<"f","r","e","n","c","h"," ","k","i","s","s">>,
      <<"v","i","l","l","a"," ","s","i","n","g","h","a">>,
      <<"d","e"," ","m","a","u","r","i","c","e"," ","U+221A","U+2020"," ","o","l","i","v","i","e","r">>,
      <<"m","a","u","r","i","c","e"," ","U+221A","U+2020"," ","o","l","i","v","i","e","r">>,
      <<"b","a","b","a","m">>,
      <<"a","u"," ","r","e","p","o","s"," ","d","e"," ","l","a"," ","m","o","n","t","a","g","n","e">>,
      <<"r","e","p","o","s"," ","d","e"," ","l","a"," ","m","o","n","t","a","g","n","e">>,
      <<"m","a","z","a","'","j">>,
      <<"m","a","z","a","j">>,
      <<"l","a"," ","b","r","a","n","c","h","e"," ","d","'","o","l","i","v","i","e","r">>,
      <<"b","r","a","n","c","h","e"," ","d","'","o","l","i","v","i","e","r">>,
      <<"a","p","p","e","l"," ","t","h","a","U+221A","U+00D8">>,
      <<"a","p","p","e","l"," ","t","h","a","i">>,
      <<"f","a","r","a","y","a">>,
      <<"s","t","a","t","i","o","n"," ","3">>,
      <<"m","o","n","s","i","e","u","r"," ","v">>,
      <<"f","e","r","m","e","n","t">>,
      <<"f","u","r","b","e","t","t","o">>,
      <<"a","n","j","u">>,
      <<"l","a"," ","c","h","a","r","c","u","t","e","r","i","e">>,
      <<"l","'","U+221A","U+00A9","p","i","c","e","r","i","e"," ","n","o","m","a","d">>,
      <<"e","p","i","c","e","r","i","e"," ","n","o","m","a","d">>,
      <<"l","e"," ","t","o","u","r","n","a","n","t">>,
      <<"t","o","u","r","n","a","n","t">>,
      <<"l","e"," ","v","a","r","i","U+221A","U+00A9","t","U+221A","U+00A9","s">>,
      <<"v","a","r","i","U+221A","U+00A9","t","U+221A","U+00A9","s">>,
      <<"l","e","s"," ","p","o","t","e","s"," ","e","n"," ","t","o","q","u","e">>,
      <<"p","o","t","e","s"," ","e","n"," ","t","o","q","u","e">>,
      <<"n","U+221A","U+00A9","n","u">>,
      <<"n","e","n","u">>,
      <<"o","s","t","e","r","i","a"," ","b","o","l","o","g","n","e","s","e">>,
      <<"s","a","i","n","t"," ","b","o","n","i","f","a","c","e">>,
      <<"s","t","."," ","k","i","l","d","a">>,
      <<"s","t"," ","k","i","l","d","a">>
    >>

\* brussels_context.py GAULT_MILLAU
GAULT_MILLAU ==
    <<
      <<"b","o","z","a","r"," ","r","e","s","t","a","u","r","a","n","t">>,
      <<"k","a","r","e","n"," ","t","o","r","o","s","y","a","n">>,
      <<"c","o","m","m","e"," ","c","h","e","z"," ","s","o","i">>,
      <<"c","h","a","l","e","t"," ","d","e"," ","l","a"," ","f","o","r","U+221A","U+2122","t">>,
      <<"l","e"," ","c","h","a","l","e","t"," ","d","e"," ","l","a"," ","f","o","r","U+221A","U+2122","t">>,
      <<"v","i","l","l","a"," ","i","n"," ","t","h","e"," ","s","k","y">>,
      <<"e","l","i","a","n","e">>,
      <<"h","u","m","u","s"," ","x"," ","h","o","r","t","e","n","s","e">>,
      <<"h","u","m","u","s"," ","h","o","r","t","e","n","s","e">>,
      <<"k","a","m","o">>,
      <<"s","e","n","z","a","n","o","m","e">>,
      <<"b","a","r","g","e">>,
      <<"p","a","l","a","i","s"," ","r","o","y","a","l"," ","b","y"," ","d","a","v","i","d"," ","m","a","r","t","i","n">>,
      <<"c","h","a","g","a">>,
      <<"d","a"," ","m","i","m","m","o">>,
      <<"n","o","n","b","e"," ","d","a","i","g","a","k","u">>,
      <<"s","t","i","r","w","e","n">>,
      <<"l","e"," ","s","t","i","r","w","e","n">>,
      <<"q","u","a","r","t","z">>,
      <<"e","n","t","r","o","p","y">>,
      <<"l","a"," ","b","o","n","n","e"," ","c","h","U+221A","U+00AE","r","e">>,
      <<"b","o","n","n","e"," ","c","h","e","r","e">>,
      <<"l","e"," ","p","a","s","s","a","g","e">>,
      <<"a","m","e","n">>,
      <<"a","s","t","e","r">>,
      <<"c","i","a","o">>,
      <<"i","v","r","e","s","s","e">>,
      <<"j","a","y","u">>,
      <<"l","'","e","c","a","i","l","l","e","r"," ","d","u"," ","p","a","l","a","i","s">>,
      <<"e","c","a","i","l","l","e","r"," ","d","u"," ","p","a","l","a","i","s">>,
      <<"l","a"," ","b","e","l","l","e"," ","m","a","r","a","U+221A","U+00C6","c","h","U+221A","U+00AE","r","e">>,
      <<"b","e","l","l","e"," ","m","a","r","a","i","c","h","e","r","e">>,
      <<"l","a"," ","b","u","v","e","t","t","e">>,
      <<"l","a"," ","t","r","u","f","f","e"," ","n","o","i","r","e">>,
      <<"t","r","u","f","f","e"," ","n","o","i","r","e">>,
      <<"l","e"," ","m","o","n","d","e"," ","e","s","t"," ","p","e","t","i","t">>,
      <<"m","o","n","d","e"," ","e","s","t"," ","p","e","t","i","t">>,
      <<"l","e"," ","p","i","g","e","o","n"," ","n","o","i","r">>,
      <<"p","i","g","e","o","n"," ","n","o","i","r">>,
      <<"r","a","c","i","n","e","s">>,
      <<"s","a","m","o","u","r","a","U+221A","U+00D8">>,
      <<"s","a","m","o","u","r","a","i">>,
      <<"a","n","j","u">>,
      <<"b","a","b","a","m">>,
      <<"b","e","a","u","c","o","u","p"," ","b","e","l","g","e">>,
      <<"b","e","a","u","c","o","u","p"," ","f","i","s","h">>,
      <<"b","o","c","c","o","n","i">>,
      <<"b","o","g","a","r","t","-","f","o","o","d","i","e","s"," ","c","o","r","n","e","r">>,
      <<"b","o","g","a","r","t"," ","f","o","o","d","i","e","s">>,
      <<"b","o","t","t","e","g","a"," ","v","a","n","n","i","n","i">>,
      <<"b","r","u","g","m","a","n","n">>,
      <<"b","r","u","t">>,
      <<"c","a","r"," ","b","o","n">>,
      <<"c","e","r","t","o">>,
      <<"c","h","a","r","l","u">>,
      <<"c","h","o","u">>,
      <<"c","i","n","q">>,
      <<"c","o","l","o","n","e","l"," ","f","o","r","t"," ","j","a","c","o">>,
      <<"c","o","l","o","n","e","l"," ","l","o","u","i","s","e">>,
      <<"d","o","l","c","e"," ","a","m","a","r","o">>,
      <<"f","i","c","o">>,
      <<"f","l","a","m","m","e">>,
      <<"f","r","a","s","c","a">>,
      <<"f","r","i","t","u","r","e"," ","r","e","n","U+221A","U+00A9">>,
      <<"f","r","i","t","u","r","e"," ","r","e","n","e">>,
      <<"g","r","a","m","m">>,
      <<"g","u","s">>,
      <<"h","e","n","r","i">>,
      <<"h","i","s","p","a","n","i","a">>,
      <<"i","l"," ","p","a","s","s","a","t","e","m","p","o">>,
      <<"p","a","s","s","a","t","e","m","p","o">>,
      <<"i","o","d","a">>,
      <<"j","a","c","o">>,
      <<"k","a","r","t","o","u","c","h","e">>,
      <<"k","l","i","n","e">>,
      <<"k","l","o","k">>,
      <<"l","a"," ","b","r","a","n","c","h","e"," ","d","'","o","l","i","v","i","e","r">>,
      <<"b","r","a","n","c","h","e"," ","d","'","o","l","i","v","i","e","r">>,
      <<"l","a"," ","t","a","b","l","e"," ","d","e"," ","m","u","s">>,
      <<"t","a","b","l","e"," ","d","e"," ","m","u","s">>,
      <<"l","e"," ","2","0","3">>,
      <<"l","e"," ","c","o","r","b","i","e","r">>,
      <<"c","o","r","b","i","e","r">>,
      <<"l","e"," ","c","o","q"," ","e","n"," ","p","U+221A","U+00A2","t","e">>,
      <<"c","o","q"," ","e","n"," ","p","a","t","e">>,
      <<"l","e"," ","f","r","i","n","g","a","n","t">>,
      <<"f","r","i","n","g","a","n","t">>,
      <<"l","e"," ","p","e","t","i","t"," ","b","o","n"," ","b","o","n">>,
      <<"p","e","t","i","t"," ","b","o","n"," ","b","o","n">>,
      <<"l","e"," ","r","o","s","s","i","n","i">>,
      <<"r","o","s","s","i","n","i">>,
      <<"l","e"," ","t","o","u","r","n","a","n","t">>,
      <<"t","o","u","r","n","a","n","t">>,
      <<"l","e"," ","v","a","r","i","U+221A","U+00A9","t","U+221A","U+00A9","s">>,
      <<"v","a","r","i","e","t","e","s">>,
      <<"l","e","s"," ","b","r","i","g","i","t","t","i","n","e","s">>,
      <<"b","r","i","g","i","t","t","i","n","e","s">>,
      <<"l","e","s"," ","p","e","t","i","t","s"," ","b","o","u","c","h","o","n","s">>,
      <<"p","e","t","i","t","s"," ","b","o","u","c","h","o","n","s">>,
      <<"w","i","n","e"," ","b","a","r"," ","d","e","s"," ","m","a","r","o","l","l","e","s">>,
      <<"l","o","l","a">>,
      <<"m","a","i","s","o","n"," ","d","u"," ","l","u","x","e","m","b","o","u","r","g">>,
      <<"m","a","r","u">>,
      <<"m","i","r","a","n","d","a">>,
      <<"n","U+221A","U+00A9","n","u">>,
      <<"n","e","n","u">>,
      <<"n","i","g","h","t","s","h","o","p">>,
      <<"n","y","y","U+221A","U+2265">>,
      <<"n","y","y","o">>,
      <<"o","d","e","t","t","e"," ","e","n"," ","v","i","l","l","e">>,
      <<"o","l","d"," ","b","o","y">>,
      <<"o","r","i","g","i","n","e">>,
      <<"p","U+221A","U+00A9","n","a","r">>,
      <<"p","e","n","a","r">>,
      <<"r","i","c","c","i","o","c","a","p","r","i","c","c","i","o">>,
      <<"s","a","n","z","a","r","u">>,
      <<"s","a","v","a","g","e">>,
      <<"s","e","l","e","c","t","o">>,
      <<"s","t","r","o","f","i","l","i","a">>,
      <<"t","h","e"," ","a","v","e","n","u","e">>,
      <<"t","o","u","c","a","n"," ","s","u","r"," ","m","e","r">>,
      <<"y","a","m","a","y","u"," ","s","a","n","t","a","t","s","u">>,
      <<"6","5"," ","d","e","g","r","U+221A","U+00A9","s">>,
      <<"6","5"," ","d","e","g","r","e","s">>,
      <<"a","l"," ","p","i","c","c","o","l","o"," ","m","o","n","d","o">>,
      <<"p","i","c","c","o","l","o"," ","m","o","n","d","o">>,
      <<"a","s","a","d","o">>,
      <<"a","u"," ","r","e","p","o","s"," ","d","e"," ","l","a"," ","m","o","n","t","a","g","n","e">>,
      <<"r","e","p","o","s"," ","d","e"," ","l","a"," ","m","o","n","t","a","g","n","e">>,
      <<"a","u"," ","s","a","v","o","y">>,
      <<"s","a","v","o","y">>,
      <<"b","e","l","g","a"," ","q","u","e","e","n">>,
      <<"b","r","a","s","s","e","r","i","e"," ","d","e"," ","l","a"," ","p","a","t","i","n","o","i","r","e">>,
      <<"c","a","f","U+221A","U+00A9"," ","m","a","r","i","s">>,
      <<"c","a","f","e"," ","m","a","r","i","s">>,
      <<"c","a","n","t","e","r","b","u","r","y">>,
      <<"c","a","s","a"," ","d","u","e">>,
      <<"c","h","e","z"," ","l","u","m","a">>,
      <<"c","o","i","n","c","o","i","n">>,
      <<"c","o","r","r","e","s","p","o","n","d","a","n","c","e">>,
      <<"c","r","u","s","h">>,
      <<"d","e"," ","l","'","o","g","e","n","b","l","i","k">>,
      <<"o","g","e","n","b","l","i","k">>,
      <<"g","e","n","c","o">>,
      <<"g","r","o","s","e","i","l","l","e">>,
      <<"h","a","d","r","i","e","n">>,
      <<"k","o","l","y","a">>,
      <<"l","a"," ","p","i","e","r","r","e"," ","b","l","e","u","e">>,
      <<"p","i","e","r","r","e"," ","b","l","e","u","e">>,
      <<"l","e"," ","b","u","o","n","e"," ","m","a","n","i","e","r","e">>,
      <<"b","u","o","n","e"," ","m","a","n","i","e","r","e">>,
      <<"l","e"," ","s","a","i","n","t"," ","b","o","n","i","f","a","c","e">>,
      <<"s","a","i","n","t"," ","b","o","n","i","f","a","c","e">>,
      <<"l","e","s"," ","b","r","a","s","s","e","r","i","e","s"," ","g","e","o","r","g","e","s">>,
      <<"b","r","a","s","s","e","r","i","e","s"," ","g","e","o","r","g","e","s">>,
      <<"l","e","s"," ","b","r","a","s","s","i","n","s">>,
      <<"b","r","a","s","s","i","n","s">>,
      <<"l","i","l","y","'","s">>,
      <<"l","i","l","y","s">>,
      <<"l","'","o","r","c","h","i","d","U+221A","U+00A9","e"," ","b","l","a","n","c","h","e">>,
      <<"o","r","c","h","i","d","e","e"," ","b","l","a","n","c","h","e">>,
      <<"l","u","n","e"," ","s","i","a","m","o","i","s","e">>,
      <<"m","o","m","e">>,
      <<"o","s","t","e","r","i","a"," ","b","o","l","o","g","n","e","s","e">>,
      <<"o","s","t","e","r","i","a"," ","r","o","m","a","n","a">>,
      <<"o","t","t","a","n","t","a">>,
      <<"p","h","i","l","e","m","a">>,
      <<"p","l","o","e","g","m","a","n","s">>,
      <<"r","a","l","l","y","e"," ","d","e","s"," ","a","u","t","o","s">>,
      <<"s","o","i","f"," ","d","e"," ","f","a","i","m">>,
      <<"t","o","u","c","a","n"," ","b","r","a","s","s","e","r","i","e">>,
      <<"u","m","a">>,
      <<"s","e","a"," ","g","r","i","l","l">>,
      <<"s","a","n"," ","d","a","n","i","e","l","e">>,
      <<"l","a"," ","q","u","i","n","c","a","i","l","l","e","r","i","e">>,
      <<"h","u","m","p","h","r","e","y">>,
      <<"b","r","i","n","z","'","l">>,
      <<"l","e"," ","c","l","a","n"," ","d","e","s"," ","b","e","l","g","e","s">>,
      <<"f","i","n"," ","d","e"," ","s","i","U+221A","U+00AE","c","l","e">>,
      <<"f","i","n"," ","d","e"," ","s","i","e","c","l","e">>,
      <<"n","u","e","t","n","i","g","e","n","o","u","g","h">>,
      <<"n","U+221A","U+00BA","e","t","n","i","g","e","n","o","u","g","h">>,
      <<"i","n"," ","'","t"," ","s","p","i","n","n","e","k","o","p","k","e">>,
      <<"s","p","i","n","n","e","k","o","p","k","e">>,
      <<"l","a"," ","r","o","u","e"," ","d","'","o","r">>,
      <<"r","o","u","e"," ","d","'","o","r">>,
      <<"v","i","v","a"," ","m","'","b","o","m","a">>,
      <<"w","i","n","e"," ","b","a","r"," ","s","a","b","l","o","n">>,
      <<"m","o","b","i">>,
      <<"f","e","r","n","a","n","d"," ","o","b","b">>
    >>

\* brussels_context.py BRUXELLOIS_INSTITUTIONS, in the dict's order: <<name, score>>
BRUXELLOIS_INSTITUTIONS ==
    <<
      <<<<"p","o","t","v","e","r","d","o","e","m","m","e","k","e">>, 10000>>,
      <<<<"p","o","t","e","s"," ","e","n"," ","t","o","q","u","e">>, 10000>>,
      <<<<"f","r","i","t","u","r","e"," ","r","e","n","e">>, 10000>>,
      <<<<"f","r","i","t","u","r","e"," ","r","e","n","U+221A","U+00A9">>, 10000>>,
      <<<<"p","e","t","i","t","s"," ","b","o","u","c","h","o","n","s">>, 10000>>,
      <<<<"z","i","n","n","e","k","e">>, 10000>>,
      <<<<"f","e","r","n","a","n","d"," ","o","b","b">>, 10000>>,
      <<<<"p","o","r","t","e","u","s","e"," ","d","'","e","a","u">>, 10000>>,
      <<<<"v","o","l","l","e"," ","g","a","s">>, 10000>>,
      <<<<"f","i","n"," ","d","e"," ","s","i","e","c","l","e">>, 9000>>,
      <<<<"f","i","n"," ","d","e"," ","s","i","U+221A","U+00AE","c","l","e">>, 9000>>,
      <<<<"b","r","i","g","i","t","t","i","n","e","s">>, 9000>>,
      <<<<"m","a","i","s","o","n"," ","a","n","t","o","i","n","e">>, 9000>>,
      <<<<"n","o","o","r","d","z","e","e">>, 9000>>,
      <<<<"m","e","r"," ","d","u"," ","n","o","r","d">>, 9000>>,
      <<<<"s","p","i","n","n","e","k","o","p","k","e">>, 9000>>,
      <<<<"v","i","s","m","e","t">>, 9000>>,
      <<<<"k","e","l","d","e","r","k","e">>, 9000>>,
      <<<<"t","a","v","e","r","n","e"," ","d","u"," ","p","a","s","s","a","g","e">>, 8500>>,
      <<<<"s","t","e","k","e","r","l","a","p","a","t","t","e">>, 9000>>
    >>

\* brussels_context.py GRAND_PLACE
GRAND_PLACE ==
    [lat |-> 508467, lng |-> 43525]

\* brussels_context.py PLACE_SCHUMAN
PLACE_SCHUMAN ==
    [lat |-> 508427, lng |-> 43827]

\* brussels_context.py BRUSSELS_BOUNDS
BRUSSELS_BOUNDS ==
    [lat_min |-> 507600, lat_max |-> 509100, lng_min |-> 42600, lng_max |-> 44800]

\* brussels_context.py COMMUNES, in the dict's order
COMMUNES ==
    <<
      [name |-> "Anderlecht", lat |-> 508333, lng |-> 43072, tier |-> "underexplored"],
      [name |-> "Auderghem", lat |-> 508167, lng |-> 44333, tier |-> "local_foodie"],
      [name |-> "Berchem-Sainte-Agathe", lat |-> 508667, lng |-> 42917, tier |-> "underexplored"],
      [name |-> "Bruxelles", lat |-> 508503, lng |-> 43517, tier |-> "tourist_heavy"],
      [name |-> "Etterbeek", lat |-> 508333, lng |-> 43833, tier |-> "eu_bubble"],
      [name |-> "Evere", lat |-> 508667, lng |-> 44000, tier |-> "underexplored"],
      [name |-> "Forest", lat |-> 508103, lng |-> 43242, tier |-> "underexplored"],
      [name |-> "Ganshoren", lat |-> 508750, lng |-> 43083, tier |-> "underexplored"],
      [name |-> "Ixelles", lat |-> 508275, lng |-> 43697, tier |-> "mixed"],
      [name |-> "Jette", lat |-> 508792, lng |-> 43250, tier |-> "underexplored"],
      [name |-> "Koekelberg", lat |-> 508625, lng |-> 43292, tier |-> "underexplored"],
      [name |-> "Molenbeek-Saint-Jean", lat |-> 508547, lng |-> 43286, tier |-> "diaspora_hub"],
      [name |-> "Saint-Gilles", lat |-> 508261, lng |-> 43456, tier |-> "diaspora_hub"],
      [name |-> "Saint-Josse-ten-Noode", lat |-> 508553, lng |-> 43703, tier |-> "diaspora_hub"],
      [name |-> "Schaerbeek", lat |-> 508653, lng |-> 43778, tier |-> "diaspora_hub"],
      [name |-> "Uccle", lat |-> 508000, lng |-> 43333, tier |-> "local_foodie"],
      [name |-> "Watermael-Boitsfort", lat |-> 507958, lng |-> 44125, tier |-> "local_foodie"],
      [name |-> "Woluwe-Saint-Lambert", lat |-> 508417, lng |-> 44333, tier |-> "local_foodie"],
      [name |-> "Woluwe-Saint-Pierre", lat |-> 508333, lng |-> 44500, tier |-> "local_foodie"]
    >>

\* brussels_context.py NEIGHBORHOODS, in the dict's order; radius in metres (default 0.5 km, get_neighborhood)
NEIGHBORHOODS ==
    <<
      [name |-> "MatongU+221AU+00A9", lat |-> 508295, lng |-> 43680, tier |-> "local_foodie", radius |-> 300],
      [name |-> "ChU+221AU+00A2telain", lat |-> 508235, lng |-> 43600, tier |-> "local_foodie", radius |-> 500],
      [name |-> "Sainte-Catherine", lat |-> 508511, lng |-> 43461, tier |-> "local_foodie", radius |-> 500],
      [name |-> "Marolles", lat |-> 508389, lng |-> 43444, tier |-> "local_foodie", radius |-> 500],
      [name |-> "Saint-Boniface", lat |-> 508308, lng |-> 43672, tier |-> "local_foodie", radius |-> 500],
      [name |-> "Rue des Bouchers", lat |-> 508478, lng |-> 43544, tier |-> "tourist_trap", radius |-> 500],
      [name |-> "Grand Place", lat |-> 508467, lng |-> 43525, tier |-> "tourist_trap", radius |-> 500],
      [name |-> "European Quarter", lat |-> 508427, lng |-> 43827, tier |-> "eu_bubble", radius |-> 500],
      [name |-> "Gare du Nord", lat |-> 508597, lng |-> 43614, tier |-> "mixed", radius |-> 500],
      [name |-> "Flagey", lat |-> 508275, lng |-> 43720, tier |-> "local_foodie", radius |-> 500],
      [name |-> "Parvis Saint-Gilles", lat |-> 508270, lng |-> 43465, tier |-> "local_foodie", radius |-> 500],
      [name |-> "Dansaert", lat |-> 508505, lng |-> 43430, tier |-> "local_foodie", radius |-> 500],
      [name |-> "Sablon", lat |-> 508420, lng |-> 43550, tier |-> "mixed", radius |-> 500]
    >>

\* brussels_context.py LOCAL_FOOD_STREETS; radius in metres
LOCAL_FOOD_STREETS ==
    <<
      [name |-> <<"C","h","a","u","s","s","U+221A","U+00A9","e"," ","d","e"," ","G","a","n","d">>,
         lat |-> 508570, lng |-> 43320, radius |-> 300],
      [name |-> <<"R","u","e"," ","d","e"," ","B","r","a","b","a","n","t">>,
         lat |-> 508555, lng |-> 43595, radius |-> 250],
      [name |-> <<"F","o","o","d","m","e","t","/","C","l","e","m","e","n","c","e","a","u">>,
         lat |-> 508400, lng |-> 43180, radius |-> 250],
      [name |-> <<"C","u","r","e","g","h","e","m">>,
         lat |-> 508380, lng |-> 43180, radius |-> 250],
      [name |-> <<"C","h","a","u","s","s","U+221A","U+00A9","e"," ","d","e"," ","H","a","e","c","h","t">>,
         lat |-> 508570, lng |-> 43680, radius |-> 300],
      [name |-> <<"P","l","a","c","e"," ","M","a","d","o","u"," ","T","u","r","k","i","s","h"," ","Q","u","a","r","t","e","r">>,
         lat |-> 508520, lng |-> 43700, radius |-> 150],
      [name |-> <<"F","a","t","i","h"," ","M","o","s","q","u","e"," ","A","r","e","a">>,
         lat |-> 508590, lng |-> 43650, radius |-> 150],
      [name |-> <<"C","h","a","u","s","s","U+221A","U+00A9","e"," ","d","e"," ","W","a","v","r","e"," ","(","M","a","t","o","n","g","U+221A","U+00A9",")">>,
         lat |-> 508300, lng |-> 43690, radius |-> 150],
      [name |-> <<"G","a","l","e","r","i","e"," ","d","'","I","x","e","l","l","e","s">>,
         lat |-> 508295, lng |-> 43680, radius |-> 80],
      [name |-> <<"R","u","e"," ","L","o","n","g","u","e"," ","V","i","e">>,
         lat |-> 508290, lng |-> 43700, radius |-> 100],
      [name |-> <<"P","o","r","t","e"," ","d","e"," ","N","a","m","u","r">>,
         lat |-> 508335, lng |-> 43670, radius |-> 120],
      [name |-> <<"B","a","r","r","i","U+221A","U+00AE","r","e"," ","d","e"," ","S","a","i","n","t","-","G","i","l","l","e","s">>,
         lat |-> 508225, lng |-> 43445, radius |-> 180],
      [name |-> <<"R","u","e"," ","d","e"," ","B","o","s","n","i","e">>,
         lat |-> 508235, lng |-> 43420, radius |-> 120],
      [name |-> <<"R","u","e"," ","d","u"," ","D","r","i","e","s">>,
         lat |-> 508130, lng |-> 43220, radius |-> 150],
      [name |-> <<"O","s","s","e","g","h","e","m"," ","R","o","m","a","n","i","a","n"," ","Q","u","a","r","t","e","r">>,
         lat |-> 508650, lng |-> 43300, radius |-> 200],
      [name |-> <<"P","l","a","c","e"," ","d","u"," ","C","h","U+221A","U+00A2","t","e","l","a","i","n">>,
         lat |-> 508245, lng |-> 43625, radius |-> 150],
      [name |-> <<"P","l","a","c","e"," ","S","c","h","u","m","a","n">>,
         lat |-> 508427, lng |-> 43827, radius |-> 200],
      [name |-> <<"P","l","a","c","e"," ","d","u"," ","L","u","x","e","m","b","o","u","r","g">>,
         lat |-> 508380, lng |-> 43715, radius |-> 150],
      [name |-> <<"C","h","a","u","s","s","U+221A","U+00A9","e"," ","d","e"," ","L","o","u","v","a","i","n">>,
         lat |-> 508545, lng |-> 43750, radius |-> 200],
      [name |-> <<"R","u","e"," ","d","e"," ","l","'","A","r","g","o","n","n","e">>,
         lat |-> 508340, lng |-> 43640, radius |-> 120],
      [name |-> <<"B","o","u","l","e","v","a","r","d"," ","J","a","m","a","r">>,
         lat |-> 508360, lng |-> 43350, radius |-> 150],
      [name |-> <<"P","o","r","t","e"," ","d","e"," ","H","a","l">>,
         lat |-> 508365, lng |-> 43480, radius |-> 150],
      [name |-> <<"P","l","a","c","e"," ","F","l","a","g","e","y">>,
         lat |-> 508275, lng |-> 43720, radius |-> 180],
      [name |-> <<"R","u","e"," ","d","e"," ","M","o","s","c","o","u">>,
         lat |-> 508265, lng |-> 43445, radius |-> 150],
      [name |-> <<"R","u","e"," ","V","a","n","d","e","r","s","c","h","r","i","c","k">>,
         lat |-> 508245, lng |-> 43435, radius |-> 150],
      [name |-> <<"R","u","e"," ","d","u"," ","F","o","r","t">>,
         lat |-> 508255, lng |-> 43490, radius |-> 150],
      [name |-> <<"C","h","a","u","s","s","U+221A","U+00A9","e"," ","d","e"," ","C","h","a","r","l","e","r","o","i">>,
         lat |-> 508300, lng |-> 43520, radius |-> 200],
      [name |-> <<"P","a","r","v","i","s"," ","d","e"," ","S","a","i","n","t","-","G","i","l","l","e","s">>,
         lat |-> 508270, lng |-> 43465, radius |-> 150],
      [name |-> <<"R","u","e"," ","L","e","s","b","r","o","u","s","s","a","r","t">>,
         lat |-> 508265, lng |-> 43755, radius |-> 150],
      [name |-> <<"R","u","e"," ","d","u"," ","P","a","g","e">>,
         lat |-> 508235, lng |-> 43580, radius |-> 150],
      [name |-> <<"R","u","e"," ","A","m","U+221A","U+00A9","r","i","c","a","i","n","e">>,
         lat |-> 508231, lng |-> 43591, radius |-> 120],
      [name |-> <<"R","u","e"," ","d","e"," ","l","a"," ","P","a","i","x">>,
         lat |-> 508295, lng |-> 43665, radius |-> 120],
      [name |-> <<"R","u","e"," ","J","o","s","a","p","h","a","t">>,
         lat |-> 508580, lng |-> 43780, radius |-> 200],
      [name |-> <<"P","l","a","c","e"," ","C","o","l","i","g","n","o","n">>,
         lat |-> 508625, lng |-> 43720, radius |-> 150],
      [name |-> <<"R","u","e"," ","W","a","y","e","z">>,
         lat |-> 508395, lng |-> 43095, radius |-> 150],
      [name |-> <<"R","u","e"," ","L","U+221A","U+00A9","o","n"," ","T","h","U+221A","U+00A9","o","d","o","r">>,
         lat |-> 508780, lng |-> 43280, radius |-> 150]
    >>

\* brussels_context.py DIASPORA_AUTHENTICITY: cuisine -> commune -> weight
DIASPORA_AUTHENTICITY ==
    "Moroccan" :> ("Molenbeek-Saint-Jean" :> 10000 @@ "Anderlecht" :> 9000 @@ "Saint-Gilles" :> 8500 @@ "Schaerbeek" :> 8500 @@ "Saint-Josse-ten-Noode" :> 8000) @@
    "Tunisian" :> ("Molenbeek-Saint-Jean" :> 9000 @@ "Anderlecht" :> 8500 @@ "Saint-Gilles" :> 8000 @@ "Schaerbeek" :> 7500) @@
    "North African" :> ("Molenbeek-Saint-Jean" :> 9500 @@ "Anderlecht" :> 9000 @@ "Saint-Gilles" :> 8000 @@ "Schaerbeek" :> 8000 @@ "Saint-Josse-ten-Noode" :> 7500) @@
    "Turkish" :> ("Saint-Josse-ten-Noode" :> 10000 @@ "Schaerbeek" :> 9000 @@ "Molenbeek-Saint-Jean" :> 7000) @@
    "Congolese" :> ("Ixelles" :> 10000 @@ "Molenbeek-Saint-Jean" :> 7000 @@ "Anderlecht" :> 7000 @@ "Saint-Gilles" :> 6000 @@ "Schaerbeek" :> 5000) @@
    "African" :> ("Ixelles" :> 9000 @@ "Molenbeek-Saint-Jean" :> 7500 @@ "Anderlecht" :> 7000 @@ "Saint-Gilles" :> 6500 @@ "Schaerbeek" :> 6000) @@
    "West African" :> ("Ixelles" :> 8500 @@ "Molenbeek-Saint-Jean" :> 8000 @@ "Anderlecht" :> 7500 @@ "Saint-Gilles" :> 6500) @@
    "Romanian" :> ("Saint-Gilles" :> 8000 @@ "Forest" :> 7500 @@ "Anderlecht" :> 7000 @@ "Schaerbeek" :> 6500) @@
    "Polish" :> ("Saint-Gilles" :> 8500 @@ "Forest" :> 8000 @@ "Anderlecht" :> 6500) @@
    "Eastern European" :> ("Saint-Gilles" :> 8000 @@ "Forest" :> 7500 @@ "Anderlecht" :> 7000) @@
    "Syrian" :> ("Saint-Josse-ten-Noode" :> 9000 @@ "Saint-Gilles" :> 8500 @@ "Schaerbeek" :> 7500) @@
    "Iraqi" :> ("Saint-Josse-ten-Noode" :> 8500 @@ "Schaerbeek" :> 7500) @@
    "Brazilian" :> ("Saint-Gilles" :> 9000 @@ "Ixelles" :> 6500 @@ "Forest" :> 6000) @@
    "Middle Eastern" :> ("Saint-Josse-ten-Noode" :> 9000 @@ "Schaerbeek" :> 8000 @@ "Molenbeek-Saint-Jean" :> 7000) @@
    "Lebanese" :> ("Saint-Josse-ten-Noode" :> 8000 @@ "Ixelles" :> 6500 @@ "Saint-Gilles" :> 6000) @@
    "Ethiopian" :> ("Bruxelles" :> 7500 @@ "Ixelles" :> 7000 @@ "Saint-Gilles" :> 5000) @@
    "Portuguese" :> ("Saint-Gilles" :> 9000 @@ "Ixelles" :> 7000 @@ "Forest" :> 6500) @@
    "Vietnamese" :> ("Bruxelles" :> 7000 @@ "Ixelles" :> 6000) @@
    "Chinese" :> ("Bruxelles" :> 6000 @@ "Ixelles" :> 5000) @@
    "Indian" :> ("Ixelles" :> 6000 @@ "Saint-Gilles" :> 5000 @@ "Etterbeek" :> 4500) @@
    "Pakistani" :> ("Saint-Josse-ten-Noode" :> 7000 @@ "Schaerbeek" :> 6000 @@ "Anderlecht" :> 6000) @@
    "Greek" :> ("Saint-Gilles" :> 8000 @@ "Ixelles" :> 5000)

\* brussels_context.py BELGIAN_AUTHENTICITY
BELGIAN_AUTHENTICITY ==
    "Belgian" :> ("Anderlecht" :> 9000 @@ "Schaerbeek" :> 8000 @@ "Forest" :> 8000 @@ "Bruxelles" :> 5000) @@
    "Seafood" :> ("Bruxelles" :> 8000) @@
    "French" :> ("Ixelles" :> 7000 @@ "Uccle" :> 7000 @@ "Saint-Gilles" :> 6000)

\* brussels_context.py FRITERIE_AUTHENTICITY
FRITERIE_AUTHENTICITY ==
    "Jette" :> 10000 @@
    "Evere" :> 9500 @@
    "Berchem-Sainte-Agathe" :> 9500 @@
    "Anderlecht" :> 9000 @@
    "Forest" :> 9000 @@
    "Schaerbeek" :> 8500 @@
    "Ganshoren" :> 8500 @@
    "Molenbeek-Saint-Jean" :> 8000 @@
    "Koekelberg" :> 8000 @@
    "Saint-Gilles" :> 6000 @@
    "Ixelles" :> 5000 @@
    "Bruxelles" :> 3000

\* brussels_context.py DIASPORA_STREETS: cuisine -> the names of its streets, in order
DIASPORA_STREETS ==
    "Moroccan" :> <<
        <<"C","h","a","u","s","s","U+221A","U+00A9","e"," ","d","e"," ","G","a","n","d">>,
        <<"R","u","e"," ","d","e"," ","B","r","a","b","a","n","t">>,
        <<"F","o","o","d","m","e","t","/","C","l","e","m","e","n","c","e","a","u">>,
        <<"C","u","r","e","g","h","e","m">>
      >> @@
    "Tunisian" :> <<
        <<"C","h","a","u","s","s","U+221A","U+00A9","e"," ","d","e"," ","G","a","n","d">>,
        <<"R","u","e"," ","d","e"," ","B","r","a","b","a","n","t">>
      >> @@
    "North African" :> <<
        <<"C","h","a","u","s","s","U+221A","U+00A9","e"," ","d","e"," ","G","a","n","d">>,
        <<"R","u","e"," ","d","e"," ","B","r","a","b","a","n","t">>,
        <<"C","u","r","e","g","h","e","m">>
      >> @@
    "Turkish" :> <<
        <<"C","h","a","u","s","s","U+221A","U+00A9","e"," ","d","e"," ","H","a","e","c","h","t">>,
        <<"P","l","a","c","e"," ","M","a","d","o","u"," ","a","r","e","a">>,
        <<"F","a","t","i","h"," ","M","o","s","q","u","e"," ","a","r","e","a">>
      >> @@
    "Congolese" :> <<
        <<"M","a","t","o","n","g","U+221A","U+00A9"," ","(","C","h","a","u","s","s","U+221A","U+00A9","e"," ","d","e"," ","W","a","v","r","e",")">>,
        <<"G","a","l","e","r","i","e"," ","d","'","I","x","e","l","l","e","s">>,
        <<"R","u","e"," ","L","o","n","g","u","e"," ","V","i","e">>
      >> @@
    "African" :> <<
        <<"M","a","t","o","n","g","U+221A","U+00A9">>,
        <<"P","o","r","t","e"," ","d","e"," ","N","a","m","u","r">>
      >> @@
    "Polish" :> <<
        <<"B","a","r","r","i","U+221A","U+00AE","r","e"," ","d","e"," ","S","a","i","n","t","-","G","i","l","l","e","s">>,
        <<"R","u","e"," ","d","e"," ","B","o","s","n","i","e">>
      >> @@
    "Romanian" :> <<
        <<"O","s","s","e","g","h","e","m"," ","a","r","e","a">>,
        <<"A","n","d","e","r","l","e","c","h","t">>
      >> @@
    "Syrian" :> <<
        <<"C","h","a","u","s","s","U+221A","U+00A9","e"," ","d","e"," ","L","o","u","v","a","i","n">>,
        <<"P","l","a","c","e"," ","M","a","d","o","u"," ","a","r","e","a">>
      >> @@
    "Iraqi" :> <<
        <<"C","h","a","u","s","s","U+221A","U+00A9","e"," ","d","e"," ","L","o","u","v","a","i","n">>
      >> @@
    "Brazilian" :> <<
        <<"B","a","r","r","i","U+221A","U+00AE","r","e"," ","d","e"," ","S","a","i","n","t","-","G","i","l","l","e","s">>,
        <<"P","l","a","c","e"," ","F","l","a","g","e","y">>
      >> @@
    "Portuguese" :> <<
        <<"P","o","r","t","e"," ","d","e"," ","H","a","l">>,
        <<"P","l","a","c","e"," ","F","l","a","g","e","y">>
      >> @@
    "Indian" :> <<
        <<"R","u","e"," ","d","e"," ","l","'","A","r","g","o","n","n","e">>,
        <<"B","o","u","l","e","v","a","r","d"," ","J","a","m","a","r"," ","(","G","a","r","e"," ","d","u"," ","M","i","d","i",")">>
      >> @@
    "Pakistani" :> <<
        <<"R","u","e"," ","d","e"," ","l","'","A","r","g","o","n","n","e">>,
        <<"B","o","u","l","e","v","a","r","d"," ","J","a","m","a","r"," ","(","G","a","r","e"," ","d","u"," ","M","i","d","i",")">>
      >> @@
    "Lebanese" :> <<
        <<"I","x","e","l","l","e","s"," ","(","v","a","r","i","o","u","s",")">>,
        <<"S","a","i","n","t","-","G","i","l","l","e","s">>
      >> @@
    "Ethiopian" :> <<
        <<"S","a","i","n","t","e","-","C","a","t","h","e","r","i","n","e">>,
        <<"M","a","t","o","n","g","U+221A","U+00A9"," ","a","r","e","a">>
      >> @@
    "Greek" :> <<
        <<"G","a","r","e"," ","d","u"," ","M","i","d","i"," ","a","r","e","a"," ","(","R","u","e"," ","d","e"," ","M","U+221A","U+00A9","r","o","d","e","/","S","u","U+221A","U+00AE","d","e",")">>,
        <<"I","x","e","l","l","e","s">>
      >>

\* brussels_context.py CUISINE_SPECIFICITY
CUISINE_SPECIFICITY ==
    "Sichuan" :> 10000 @@ "Szechuan" :> 10000 @@ "Cantonese" :> 9000 @@
    "Hunan" :> 10000 @@ "Taiwanese" :> 9000 @@ "Shanghainese" :> 10000 @@
    "Dim Sum" :> 8000 @@ "Pekinese" :> 9000 @@ "Hakka" :> 10000 @@ "Ramen" :> 8000 @@
    "Izakaya" :> 9000 @@ "Kaiseki" :> 10000 @@ "Omakase" :> 10000 @@
    "Yakitori" :> 9000 @@ "Tonkatsu" :> 9000 @@ "Okonomiyaki" :> 10000 @@
    "Korean BBQ" :> 8000 @@ "Hansik" :> 10000 @@ "South Indian" :> 9000 @@
    "Punjabi" :> 9000 @@ "Gujarati" :> 10000 @@ "Bengali" :> 10000 @@
    "Kerala" :> 10000 @@ "Chettinad" :> 10000 @@ "Hyderabadi" :> 9000 @@
    "Neapolitan" :> 9000 @@ "Sicilian" :> 10000 @@ "Tuscan" :> 9000 @@
    "Roman" :> 9000 @@ "Venetian" :> 10000 @@ "Sardinian" :> 10000 @@
    "Piedmontese" :> 10000 @@ "Emilian" :> 10000 @@ "Basque" :> 10000 @@
    "Catalan" :> 9000 @@ "Galician" :> 10000 @@ "Andalusian" :> 9000 @@
    "Lyonnaise" :> 9000 @@ "ProvenU+221AU+00DFal" :> 9000 @@ "Alsatian" :> 9000 @@
    "Breton" :> 9000 @@ "Burgundian" :> 10000 @@ "Savoyard" :> 9000 @@
    "Oaxacan" :> 10000 @@ "Yucatecan" :> 10000 @@ "Jalisciense" :> 10000 @@
    "Levantine" :> 8000 @@ "Palestinian" :> 10000 @@ "Yemeni" :> 10000 @@
    "Kurdish" :> 10000 @@ "Ethiopian" :> 8000 @@ "Eritrean" :> 9000 @@
    "Senegalese" :> 10000 @@ "Ivorian" :> 10000 @@ "Cameroonian" :> 10000 @@
    "Ghanaian" :> 10000 @@ "Nigerian" :> 9000 @@ "Chinese" :> 0 @@ "Japanese" :> 0 @@
    "Italian" :> 0 @@ "French" :> 0 @@ "Indian" :> 0 @@ "Thai" :> 0 @@
    "Vietnamese" :> 0 @@ "Mexican" :> 0 @@ "American" :> 0 @@ "Mediterranean" :> 0 @@
    "Asian" :> 0 @@ "European" :> 0 @@ "International" :> 0 @@ "Fusion" :> 0

\* brussels_reranking.py RARE_CUISINES_BRUSSELS
RARE_CUISINES_BRUSSELS ==
    "Georgian" :> 10000 @@
    "Peruvian" :> 9000 @@
    "Filipino" :> 9000 @@
    "Malaysian" :> 9000 @@
    "Sri Lankan" :> 9000 @@
    "Scandinavian" :> 8000 @@
    "Venezuelan" :> 8000 @@
    "Argentinian" :> 8000 @@
    "Korean" :> 7000 @@
    "Ethiopian" :> 7000 @@
    "Indonesian" :> 7000 @@
    "Tibetan" :> 9000 @@
    "Nepalese" :> 8000 @@
    "Burmese" :> 9000 @@
    "Caribbean" :> 8000 @@
    "Jamaican" :> 9000 @@
    "Cuban" :> 9000 @@
    "Hawaiian" :> 10000 @@
    "Taiwanese" :> 8000 @@
    "Szechuan" :> 7000 @@
    "Cantonese" :> 7000

----------------------------------------------------------------------------
(* CITY CONTEXT: the lookup functions of brussels_context.py *)

\* Python's None (a missing value).
None == "None"

\* A number the scraper did not get: None in the JSON, NaN in the data frame.
NaN == -1000000

\* Metres of one 10^-4 degree of latitude, times 10^4: R * pi / 180 with
\* R = 6371 km (haversine_distance).
DM_PER_UNIT_E4 == 111195

\* cos(phi) in fixed point, for a latitude in 10^-4 degrees (Taylor series of
\* math.cos at phi in radians).
CosLat(lat) ==
    LET x == ((lat \div 10) * 17453) \div 100000
        x2 == Mul(x, x)
        x4 == Mul(x2, x2)
        x6 == Mul(x4, x2)
        x8 == Mul(x4, x4)
    IN  SCALE - (x2 \div 2) + (x4 \div 24) - (x6 \div 720) + (x8 \div 40320)

\* haversine_distance(lat1, lng1, lat2, lng2), in decimetres.  Within the city
\* (angles below 0.004 rad) the great-circle distance
\*   2 R atan2(sqrt(a), sqrt(1 - a)),
\*   a = sin^2(dlat/2) + cos(lat1) cos(lat2) sin^2(dlng/2)
\* equals R sqrt(dlat^2 + cos(lat1) cos(lat2) dlng^2) to a relative 10^-6.
haversine_distance(lat1, lng1, lat2, lng2) ==
    Let((Abs(lat2 - lat1) * DM_PER_UNIT_E4) \div 1000, LAMBDA dy :
    Let(Isqrt(Mul(CosLat(lat1), CosLat(lat2)) * SCALE), LAMBDA cc :
    Let((((Abs(lng2 - lng1) * DM_PER_UNIT_E4) \div 1000) * cc) \div SCALE, LAMBDA dx :
        IF dx < 30000 /\ dy < 30000
        THEN Isqrt(dx * dx + dy * dy)
        ELSE 10 * Isqrt((dx \div 10) * (dx \div 10) + (dy \div 10) * (dy \div 10)))))

\* is_within_brussels(lat, lng)
is_within_brussels(lat, lng) ==
    /\ BRUSSELS_BOUNDS.lat_min <= lat /\ lat <= BRUSSELS_BOUNDS.lat_max
    /\ BRUSSELS_BOUNDS.lng_min <= lng /\ lng <= BRUSSELS_BOUNDS.lng_max

RECURSIVE NearestCommune(_, _, _, _, _, _)
NearestCommune(communes, lat, lng, k, min_dist, nearest) ==
    IF k > Len(communes) THEN nearest
    ELSE Let(haversine_distance(lat, lng, communes[k].lat, communes[k].lng), LAMBDA dist :
             IF k = 1 \/ dist < min_dist
             THEN NearestCommune(communes, lat, lng, k + 1, dist, communes[k].name)
             ELSE NearestCommune(communes, lat, lng, k + 1, min_dist, nearest))

\* get_commune(lat, lng): the nearest commune centre (the first one on a tie).
get_commune(lat, lng) == NearestCommune(COMMUNES, lat, lng, 1, 0, "Bruxelles")

\* COMMUNES.get(commune, {}).get("tier", "mixed")
CommuneTier(commune) ==
    Let({c \in Range(COMMUNES) : c.name = commune}, LAMBDA hits :
        IF hits = {} THEN "mixed" ELSE (CHOOSE c \in hits : TRUE).tier)

\* The (None, None) of get_neighborhood.
NoNeighborhood == [name |-> None, tier |-> None]

\* The None of a street name, and of a missing review_languages mapping.
NoStreet == <<>>
NoLanguages == <<>>

\* get_neighborhood(lat, lng): the first neighborhood whose circle holds the
\* point, or (None, None).
get_neighborhood(lat, lng) ==
    Let(NEIGHBORHOODS, LAMBDA neighborhoods :
    Let({k \in 1..Len(neighborhoods) :
            haversine_distance(lat, lng, neighborhoods[k].lat, neighborhoods[k].lng)
                < 10 * neighborhoods[k].radius}, LAMBDA hits :
        IF hits = {} THEN NoNeighborhood
        ELSE neighborhoods[CHOOSE k \in hits : \A j \in hits : k <= j]))

\* distance_to_grand_place, distance_to_eu_quarter (decimetres)
distance_to_grand_place(lat, lng) ==
    haversine_distance(lat, lng, GRAND_PLACE.lat, GRAND_PLACE.lng)
distance_to_eu_quarter(lat, lng) ==
    haversine_distance(lat, lng, PLACE_SCHUMAN.lat, PLACE_SCHUMAN.lng)

\* is_on_local_street(lat, lng): the name of the first street whose circle
\* holds the point, or NoStreet for (False, None).
is_on_local_street(lat, lng) ==
    Let(LOCAL_FOOD_STREETS, LAMBDA streets :
    Let({k \in 1..Len(streets) :
            haversine_distance(lat, lng, streets[k].lat, streets[k].lng)
                <= 10 * streets[k].radius}, LAMBDA hits :
        IF hits = {} THEN NoStreet
        ELSE streets[CHOOSE k \in hits : \A j \in hits : k <= j].name))

(* The coordinates the records of this model lie at, in 10^-4 degrees: Uccle,
   Rue des Bouchers, the Grand Place, Matonge (Chaussee de Wavre), Place
   Schuman, Chaussee de Haecht, Chaussee de Gand, Jette. *)
LocationPool ==
    {<<508000, 43333>>,
     <<508478, 43544>>,
     <<508467, 43525>>,
     <<508300, 43690>>,
     <<508427, 43827>>,
     <<508570, 43680>>,
     <<508570, 43320>>,
     <<508800, 43250>>}

\* What the lookups above return at a point.
GeoFacts(lat, lng) ==
    [commune |-> get_commune(lat, lng),
     neighborhood |-> get_neighborhood(lat, lng),
     local_street |-> is_on_local_street(lat, lng),
     dist_gp |-> distance_to_grand_place(lat, lng),
     dist_eu |-> distance_to_eu_quarter(lat, lng)]

\* GeoFacts at the points of the pool, computed once.
GeoTable == [p \in LocationPool |-> GeoFacts(p[1], p[2])]

\* GeoFacts(lat, lng), read from the table: the records of the model lie at the
\* points of the pool.
Geo(lat, lng) == GeoTable[<<lat, lng>>]

\* name.lower() searched by any pattern of a list
AnySearch(patterns, s) == \E k \in 1..Len(patterns) : ReSearch(patterns[k], s)

\* is_non_restaurant_shop(name)
is_non_restaurant_shop(name) ==
    name # <<>> /\ AnySearch(NON_RESTAURANT_SHOPS, Lower(name))

\* is_chain_restaurant(name): the re-check against brussels_context's list.
is_chain_restaurant(name) ==
    name # <<>> /\ AnySearch(CHAIN_PATTERNS, Lower(name))

\* _matches_pattern(name_lower, pattern):
\* re.search('(^|[^a-z])' + re.escape(pattern) + '($|[^a-z])', name_lower)
matches_pattern(name_lower, pattern) ==
    \E i \in 1..(Len(name_lower) - Len(pattern) + 1) :
        /\ OccursAt(pattern, name_lower, i)
        /\ i = 1 \/ name_lower[i - 1] \notin AsciiLower
        /\ \/ i + Len(pattern) - 1 = Len(name_lower)
           \/ name_lower[i + Len(pattern)] \notin AsciiLower

StrLaPaix == <<"l","a"," ","p","a","i","x">>

\* has_michelin_recognition(name): the stars of the first matching entry, 0
\* when none matches; "la paix" is matched exactly.
has_michelin_recognition(name) ==
    Let(Lower(name), LAMBDA name_lower :
    Let(MICHELIN_STARS, LAMBDA stars :
    Let({k \in 1..Len(stars) : matches_pattern(name_lower, stars[k][1])}, LAMBDA hits :
        IF name = <<>> THEN 0
        ELSE IF name_lower = StrLaPaix THEN 2
        ELSE IF hits = {} THEN 0
        ELSE stars[CHOOSE k \in hits : \A j \in hits : k <= j][2])))

\* has_gault_millau(name)
has_gault_millau(name) ==
    Let(Lower(name), LAMBDA name_lower :
        /\ name # <<>>
        /\ \/ name_lower = StrLaPaix
           \/ \E pattern \in Range(GAULT_MILLAU) : matches_pattern(name_lower, pattern))

\* has_bib_gourmand(name)
has_bib_gourmand(name) ==
    Let(Lower(name), LAMBDA name_lower :
        /\ name # <<>>
        /\ \E pattern \in Range(BIB_GOURMAND) : matches_pattern(name_lower, pattern))

\* get_cuisine_specificity_bonus(cuisine)
get_cuisine_specificity_bonus(cuisine) ==
    IF cuisine \in DOMAIN CUISINE_SPECIFICITY THEN CUISINE_SPECIFICITY[cuisine] ELSE 0

(* features.py *)

\* detect_chain(name): feature engineering's chain flag.
detect_chain(name) ==
    name # <<>> /\ AnySearch(FEATURES_CHAIN_PATTERNS, Lower(name))

----------------------------------------------------------------------------
(* SCORING SIGNALS: brussels_reranking.py *)

\* any(keyword in s for keyword in keywords)
AnyIn(keywords, s) == \E k \in 1..Len(keywords) : Contains(s, keywords[k])

\* s.replace('(', ' ').replace(')', ' ')
ParensToSpace(s) == [i \in 1..Len(s) |-> IF s[i] \in {"(", ")"} THEN " " ELSE s[i]]

\* set(s.split()): the maximal runs of non-space characters.
Words(s) ==
    LET starts == {i \in 1..Len(s) : ~IsSpace(s[i]) /\ (i = 1 \/ IsSpace(s[i - 1]))}
        WordEnd(i) == CHOOSE j \in i..Len(s) :
                         /\ \A k \in i..j : ~IsSpace(s[k])
                         /\ j = Len(s) \/ IsSpace(s[j + 1])
    IN  {SubSeq(s, i, WordEnd(i)) : i \in starts}

\* The dict load_reddit_mentions() builds from a mentions file.  A file is
\* [readable, entries]: not readable when neither file exists or json.load
\* fails, otherwise the list of [name, reddit_mentions] entries.  The later of
\* two entries with the same normalized name wins, as in the dict
\* comprehension.
MentionsOfFile(file) ==
    IF ~file.readable THEN <<>>
    ELSE LET mentions_list == file.entries
         IN  [k \in 1..Len(mentions_list) |->
                [name |-> Strip(Lower(mentions_list[k].name)),
                 reddit_mentions |-> mentions_list[k].reddit_mentions]]

\* mentions.get(name_lower, 0)
MentionsGet(mentions, name_lower) ==
    Let({k \in 1..Len(mentions) : mentions[k].name = name_lower}, LAMBDA hits :
        IF hits = {} THEN 0
        ELSE mentions[CHOOSE k \in hits : \A j \in hits : j <= k].reddit_mentions)

\* reddit_community_score(name, review_count) given the loaded mentions:
\* <<final_score, mention_count>>.
reddit_community_score(mentions, name, review_count) ==
    Let(MentionsGet(mentions, Strip(Lower(name))), LAMBDA mention_count :
        LET base_score == IF mention_count >= 10 THEN 10000
                          ELSE IF mention_count >= 5 THEN 8000
                          ELSE IF mention_count >= 3 THEN 6000
                          ELSE IF mention_count >= 2 THEN 4000
                          ELSE 2000
            size_multiplier == IF review_count # 0 /\ review_count < 200 THEN 12000
                               ELSE IF review_count # 0 /\ review_count > 2000 THEN 7000
                               ELSE SCALE
        IN  IF name = <<>> \/ mentions = <<>> THEN <<0, 0>>
            ELSE IF mention_count = 0 THEN <<0, 0>>
            ELSE <<Min(SCALE, Mul(base_score, size_multiplier)), mention_count>>)

\* tourist_trap_score(lat, lng, rating, review_count): rating in tenths.
tourist_trap_score(lat, lng, rating, review_count) ==
    Let(Geo(lat, lng), LAMBDA geo :
        LET dist_gp == geo.dist_gp
            neighborhood_data == geo.neighborhood
            in_tourist_zone ==
                IF neighborhood_data.name = "Rue des Bouchers" THEN TRUE
                ELSE IF neighborhood_data.tier = "tourist_trap" THEN TRUE
                ELSE dist_gp < 1500
            high_volume == review_count > 1500
            mediocre_rating == rating < 43
        IN  IF ~in_tourist_zone THEN 0
            ELSE IF high_volume /\ mediocre_rating
                 THEN Min(SCALE, 4000 + 300 * (43 - rating))
            ELSE IF high_volume THEN 1500
            ELSE IF mediocre_rating /\ dist_gp < 1000 THEN 2000
            ELSE 0)

stopwords == {<<"d","e">>, <<"l","a">>, <<"l","e">>, <<"d","u">>, <<"d","e","s">>, <<"l">>, <<"d">>}

\* The word-overlap test between a local food street and a diaspora street.
StreetWordsOverlap(local_street_name, diaspora_street_name) ==
    LET local_words == Words(ParensToSpace(Lower(local_street_name))) \ stopwords
        diaspora_words == Words(ParensToSpace(Lower(diaspora_street_name))) \ stopwords
    IN  local_words \cap diaspora_words # {}

diaspora_languages ==
    "Congolese" :> {"fr", "ln"} @@ "African" :> {"fr", "ln", "sw"} @@
    "Moroccan" :> {"ar", "fr"} @@ "Turkish" :> {"tr"} @@ "Lebanese" :> {"ar", "fr"} @@
    "Portuguese" :> {"pt"} @@ "Vietnamese" :> {"vi"} @@ "Chinese" :> {"zh"}

RECURSIVE SumValues(_, _)
SumValues(f, keys) ==
    IF keys = {} THEN 0
    ELSE LET k == CHOOSE x \in keys : TRUE IN f[k] + SumValues(f, keys \ {k})

\* sum(review_languages.values()); review_languages is a language -> count
\* mapping, NoLanguages when the record has none.
LanguagesTotal(review_languages) ==
    SumValues(review_languages, DOMAIN review_languages)

\* diaspora_bonus_score(cuisine, commune, lat, lng, review_languages):
\* <<commune_score, street_name>>.
diaspora_bonus_score(cuisine, commune, lat, lng, review_languages) ==
    Let(IF cuisine \in DOMAIN DIASPORA_AUTHENTICITY
        THEN Let(DIASPORA_AUTHENTICITY[cuisine], LAMBDA communes :
                 IF commune \in DOMAIN communes THEN communes[commune] ELSE 2000)
        ELSE 0, LAMBDA score1 :
    Let(IF cuisine \in DOMAIN BELGIAN_AUTHENTICITY
           /\ commune \in DOMAIN BELGIAN_AUTHENTICITY[cuisine]
        THEN Max(score1, BELGIAN_AUTHENTICITY[cuisine][commune])
        ELSE score1, LAMBDA score2 :
    Let(Geo(lat, lng).local_street, LAMBDA local_street_name :
    Let(/\ score2 > 0
        /\ local_street_name # NoStreet
        /\ cuisine \in DOMAIN DIASPORA_STREETS
        /\ \E diaspora_street \in Range(DIASPORA_STREETS[cuisine]) :
              StreetWordsOverlap(local_street_name, diaspora_street),
        LAMBDA street_matches_cuisine :
    Let(IF street_matches_cuisine THEN Min(SCALE, score2 + 3000) ELSE score2, LAMBDA score3 :
    Let(IF DOMAIN review_languages # {} /\ LanguagesTotal(review_languages) > 0
           /\ score3 > 0 /\ cuisine \in DOMAIN diaspora_languages
        THEN Min(SCALE, score3
                        + (2000 * SumValues(review_languages,
                                            DOMAIN review_languages
                                                \cap diaspora_languages[cuisine]))
                          \div LanguagesTotal(review_languages))
        ELSE score3, LAMBDA score4 :
        <<score4, IF street_matches_cuisine THEN local_street_name ELSE NoStreet>>))))))

friterie_keywords == <<<<"f","r","i","t">>, <<"f","r","i","t","u","u","r">>, <<"f","r","i","t","u","r","e">>, <<"f","r","i","t","k","o","t">>, <<"f","r","i","t","e","r","i","e">>>>

\* is_friterie(name)
is_friterie(name) == name # <<>> /\ AnyIn(friterie_keywords, Lower(name))

\* unicodedata NFD decomposition with the combining marks dropped, for the
\* accented Latin letters.
Unaccent ==
    ("U+00E0" :> "a") @@ ("U+00E2" :> "a") @@ ("U+00E4" :> "a") @@ ("U+00E7" :> "c") @@
    ("U+00E8" :> "e") @@ ("U+00E9" :> "e") @@ ("U+00EA" :> "e") @@ ("U+00EB" :> "e") @@
    ("U+00EE" :> "i") @@ ("U+00EF" :> "i") @@ ("U+00F4" :> "o") @@ ("U+00F6" :> "o") @@
    ("U+00F9" :> "u") @@ ("U+00FB" :> "u") @@ ("U+00FC" :> "u") @@
    ("U+00C0" :> "A") @@ ("U+00C7" :> "C") @@ ("U+00C8" :> "E") @@ ("U+00C9" :> "E") @@
    ("U+00CA" :> "E") @@ ("U+00D4" :> "O")

\* normalize_name_for_matching(name)
normalize_name_for_matching(name) ==
    Strip(Lower([i \in 1..Len(name) |->
                    IF name[i] \in DOMAIN Unaccent THEN Unaccent[name[i]] ELSE name[i]]))

\* bruxellois_authenticity_score(name, commune)
bruxellois_authenticity_score(name, commune) ==
    Let(Strip(Lower(name)), LAMBDA name_lower :
    Let(normalize_name_for_matching(name), LAMBDA name_normalized :
    Let(BRUXELLOIS_INSTITUTIONS, LAMBDA institutions :
    Let({k \in 1..Len(institutions) :
            \/ Contains(name_lower, institutions[k][1])
            \/ Contains(name_normalized, institutions[k][1])}, LAMBDA hits :
        IF name = <<>> THEN 0
        ELSE IF hits # {}
             THEN institutions[CHOOSE k \in hits : \A j \in hits : k <= j][2]
        ELSE IF is_friterie(name) /\ commune \in DOMAIN FRITERIE_AUTHENTICITY
             THEN FRITERIE_AUTHENTICITY[commune]
        ELSE 0))))

\* cuisine_rarity_score(cuisine, commune, cuisine_counts_by_commune)
cuisine_rarity_score(cuisine, commune, cuisine_counts_by_commune) ==
    IF commune \notin DOMAIN cuisine_counts_by_commune THEN 5000
    ELSE LET commune_cuisines == cuisine_counts_by_commune[commune]
             total == SumValues(commune_cuisines, DOMAIN commune_cuisines)
             cuisine_count == IF cuisine \in DOMAIN commune_cuisines
                              THEN commune_cuisines[cuisine] ELSE 0
         IN  IF total = 0 THEN 5000
             ELSE IF cuisine_count = 0 THEN SCALE
             ELSE Min(SCALE, (total * SCALE) \div (10 * cuisine_count))

(* Opening hours.  The opening_hours field is [kind, days]: kind "none" for a
   missing value, "text" for a string ast.literal_eval rejects or that is not
   a list, "week" for a list of day strings.  A day is [closed, shifts]:
   closed when the string holds "Closed"; shifts are the groups re.findall
   extracts with time_pattern, one [open_hour, open_ampm, close_hour,
   close_ampm] per time range, the meridiems "AM", "PM" or None. *)

\* The 24-hour opening hour of a time range.
ShiftOpen(m) ==
    IF m.open_ampm = "PM" /\ m.open_hour # 12 THEN m.open_hour + 12
    ELSE IF m.open_ampm = "AM" /\ m.open_hour = 12 THEN 0
    ELSE IF m.open_ampm = None
         THEN IF m.close_ampm = "PM"
              THEN IF m.open_hour <= m.close_hour \/ m.open_hour = 12
                   THEN (IF m.open_hour # 12 THEN m.open_hour + 12 ELSE m.open_hour)
                   ELSE m.open_hour + 12
              ELSE IF m.close_ampm = "AM" /\ m.open_hour >= 6 THEN m.open_hour + 12
              ELSE m.open_hour
    ELSE m.open_hour

\* The closing hour of a time range, past 24 when it closes overnight.
ShiftClose(m) ==
    LET close_hour == IF m.close_ampm = "PM" /\ m.close_hour # 12 THEN m.close_hour + 12
                      ELSE IF m.close_ampm = "AM" /\ m.close_hour = 12 THEN 0
                      ELSE m.close_hour
    IN  IF close_hour < ShiftOpen(m) THEN close_hour + 24 ELSE close_hour

RECURSIVE SumSeq(_, _)
SumSeq(f, k) == IF k = 0 THEN 0 ELSE f[k] + SumSeq(f, k - 1)

SetMax(S) == CHOOSE x \in S : \A y \in S : y <= x

\* max(day_close_hours) of an open day with at least one time range
DayMaxClose(day) == SetMax({ShiftClose(day.shifts[i]) : i \in 1..Len(day.shifts)})

\* The summary of opening hours that were not parsed.
UnknownHours ==
    [days_open |-> 0, total_hours_per_week |-> 0, latest_close_hour |-> 0,
     has_service_coupe |-> FALSE, closes_late |-> FALSE, is_lunch_only |-> FALSE,
     parsed |-> FALSE]

\* A call that ends with an exception instead of a value.
Raised(exception) == [raised |-> exception]

\* parse_opening_hours(opening_hours_str).  The argument is None, NaN or ""
\* (kind "none"), a string that is not the text of a list ("text"), the text of
\* a list of day descriptions ("week"), or a list itself ("list").  The guard
\* "not opening_hours_str or pd.isna(opening_hours_str)" is outside the try
\* block: for a list pd.isna returns an array, whose truth value raises
\* ValueError when it has more than one element; the empty list is falsy and a
\* list of one string fails in ast.literal_eval, inside the try block.
parse_opening_hours(opening_hours) ==
    LET days == opening_hours.days
        open_days == {k \in 1..Len(days) : ~days[k].closed}
        timed == {k \in open_days : Len(days[k].shifts) > 0}
        day_hours == [k \in 1..Len(days) |->
            IF k \in open_days
            THEN SumSeq([i \in 1..Len(days[k].shifts) |->
                            Max(0, ShiftClose(days[k].shifts[i]) - ShiftOpen(days[k].shifts[i]))],
                        Len(days[k].shifts))
            ELSE 0]
        service_coupe == {k \in open_days :
            /\ Len(days[k].shifts) >= 2
            /\ 13 <= ShiftClose(days[k].shifts[1]) /\ ShiftClose(days[k].shifts[1]) <= 16
            /\ 17 <= ShiftOpen(days[k].shifts[2]) /\ ShiftOpen(days[k].shifts[2]) <= 20}
        close_hours == {IF DayMaxClose(days[k]) > 24 THEN DayMaxClose(days[k]) - 24
                        ELSE DayMaxClose(days[k]) : k \in timed}
        late_close == {k \in timed : DayMaxClose(days[k]) >= 25}
        early_close == {k \in timed : DayMaxClose(days[k]) <= 17}
    IN  IF opening_hours.kind = "list" /\ Len(days) > 1 THEN Raised("ValueError")
        ELSE IF opening_hours.kind # "week" THEN UnknownHours
        ELSE [days_open |-> Cardinality(open_days),
              total_hours_per_week |-> SumSeq(day_hours, Len(days)),
              latest_close_hour |-> IF close_hours = {} THEN 0 ELSE SetMax(close_hours),
              has_service_coupe |-> Cardinality(service_coupe) >= 3,
              closes_late |-> Cardinality(late_close) >= 3,
              is_lunch_only |-> Cardinality(early_close) >= 4 /\ Cardinality(open_days) >= 4,
              parsed |-> TRUE]

\* A horseshoe bonus that pays a record that is both a lark and an owl twice.
calculate_horseshoe_bonus_both(restaurant) ==
    Let(parse_opening_hours(restaurant.opening_hours), LAMBDA hours_data :
        LET rating == restaurant.rating
            lark_score ==
                IF hours_data.has_service_coupe THEN 10000
                ELSE IF hours_data.total_hours_per_week > 0
                        /\ hours_data.total_hours_per_week < 30
                     THEN 8000
                ELSE IF hours_data.is_lunch_only THEN 7000
                ELSE IF hours_data.days_open <= 4 /\ hours_data.days_open > 0 THEN 6000
                ELSE 0
            owl_score == IF hours_data.closes_late THEN 8000 ELSE 0
        IN  IF rating = 0 \/ rating < 40 \/ ~hours_data.parsed THEN <<0, None>>
            ELSE IF lark_score > 0 THEN <<lark_score + owl_score, "lark">>
            ELSE IF owl_score > 0 THEN <<owl_score, "owl">>
            ELSE <<0, None>>)

\* calculate_horseshoe_bonus(restaurant): <<bonus_score, bonus_type>>.
calculate_horseshoe_bonus(restaurant) ==
    Let(parse_opening_hours(restaurant.opening_hours), LAMBDA hours_data :
        LET rating == restaurant.rating
            lark_score ==
                IF hours_data.has_service_coupe THEN 10000
                ELSE IF hours_data.total_hours_per_week > 0
                        /\ hours_data.total_hours_per_week < 30
                     THEN 8000
                ELSE IF hours_data.is_lunch_only THEN 7000
                ELSE IF hours_data.days_open <= 4 /\ hours_data.days_open > 0 THEN 6000
                ELSE 0
            is_lark == lark_score > 0
            is_owl == hours_data.closes_late
            owl_score == IF is_owl THEN 8000 ELSE 0
        IN  IF rating = 0 \/ rating < 40 THEN <<0, None>>
            ELSE IF ~hours_data.parsed THEN <<0, None>>
            ELSE IF is_lark /\ is_owl
                 THEN IF lark_score >= owl_score THEN <<lark_score, "lark">>
                      ELSE <<owl_score, "owl">>
            ELSE IF is_lark THEN <<lark_score, "lark">>
            ELSE IF is_owl THEN <<owl_score, "owl">>
            ELSE <<0, None>>)

\* unified_scarcity_score(restaurant): [total, components].
unified_scarcity_score(restaurant) ==
    Let(calculate_horseshoe_bonus(restaurant), LAMBDA horseshoe :
        LET rating == restaurant.rating
            review_count == restaurant.review_count
            cuisine == restaurant.cuisine
            review_scarcity ==
                IF rating # 0 /\ review_count # 0 /\ rating >= 40
                THEN IF 50 <= review_count /\ review_count <= 200 THEN 10000
                     ELSE IF 200 < review_count /\ review_count <= 500 THEN 7000
                     ELSE IF 35 <= review_count /\ review_count < 50
                          THEN 3000 + (6000 * (review_count - 35)) \div 15
                     ELSE IF 20 <= review_count /\ review_count < 35 THEN 0
                     ELSE IF 500 < review_count /\ review_count <= 1000 THEN 3000
                     ELSE 0
                ELSE 0
            cuisine_scarcity == IF cuisine \in DOMAIN RARE_CUISINES_BRUSSELS
                                THEN RARE_CUISINES_BRUSSELS[cuisine] ELSE 0
        IN  [total |-> (70 * review_scarcity + 20 * horseshoe[1] + 10 * cuisine_scarcity)
                          \div 100,
             components |-> [review_scarcity |-> review_scarcity,
                             horseshoe_bonus |-> horseshoe[1],
                             horseshoe_type |-> horseshoe[2],
                             hours_scarcity |-> 0, days_scarcity |-> 0,
                             schedule_scarcity |-> 0,
                             cuisine_scarcity |-> cuisine_scarcity]])

\* The regular expressions of is_family_restaurant_name in their order, the
\* optional groups written out as alternatives; search tells re.search from
\* re.match.
FAMILY_NAME_PATTERNS ==
    <<
      [pattern |-> "chez", search |-> FALSE, res |->
        <<[pre |-> "^", body |-> <<"c","h","e","z",TokWS1,TokW1>>, post |-> ""]>>],
      [pattern |-> "maison", search |-> FALSE, res |->
        <<[pre |-> "^", body |-> <<"m","a","i","s","o","n",TokWS1,TokW1>>, post |-> ""],
          [pre |-> "^", body |-> <<"m","a","i","s","o","n",TokWS1,"d","e",TokWS1,TokW1>>, post |-> ""],
          [pre |-> "^", body |-> <<"l","a",TokWS1,"m","a","i","s","o","n",TokWS1,TokW1>>, post |-> ""],
          [pre |-> "^", body |-> <<"l","a",TokWS1,"m","a","i","s","o","n",TokWS1,"d","e",TokWS1,TokW1>>, post |-> ""]>>],
      [pattern |-> "au_tradition", search |-> FALSE, res |->
        <<[pre |-> "^", body |-> <<"a","u",TokWS1,"b","o","n",TokWS1>>, post |-> ""],
          [pre |-> "^", body |-> <<"a","u",TokWS1,"v","i","e","u","x",TokWS1>>, post |-> ""],
          [pre |-> "^", body |-> <<"a","u",TokWS1,"p","e","t","i","t",TokWS1>>, post |-> ""]>>],
      [pattern |-> "bij", search |-> FALSE, res |->
        <<[pre |-> "^", body |-> <<"b","i","j",TokWS1,TokW1>>, post |-> ""]>>],
      [pattern |-> "t_diminutive", search |-> FALSE, res |->
        <<[pre |-> "^", body |-> <<"t",TokWS1,TokW1>>, post |-> ""],
          [pre |-> "^", body |-> <<"'","t",TokWS1,TokW1>>, post |-> ""]>>],
      [pattern |-> "family_title", search |-> TRUE, res |->
        <<[pre |-> "b", body |-> <<"m","a","m","a">>, post |-> "b"],
          [pre |-> "b", body |-> <<"p","a","p","a">>, post |-> "b"],
          [pre |-> "b", body |-> <<"n","o","n","n","a">>, post |-> "b"],
          [pre |-> "b", body |-> <<"o","m","a">>, post |-> "b"],
          [pre |-> "b", body |-> <<"o","p","a">>, post |-> "b"]>>]
    >>

\* is_family_restaurant_name(name): <<is_family, pattern_matched>>.
is_family_restaurant_name(name) ==
    Let(Strip(Lower(name)), LAMBDA name_lower :
    Let(FAMILY_NAME_PATTERNS, LAMBDA patterns :
    Let({k \in 1..Len(patterns) :
            \E re \in Range(patterns[k].res) :
                IF patterns[k].search THEN ReSearch(re, name_lower)
                ELSE ReMatch(re, name_lower)}, LAMBDA hits :
        IF name = <<>> \/ hits = {} THEN <<FALSE, None>>
        ELSE <<TRUE, patterns[CHOOSE k \in hits : \A j \in hits : k <= j].pattern>>)))

\* eu_bubble_penalty(lat, lng, price_level, review_languages)
eu_bubble_penalty(lat, lng, price_level, review_languages) ==
    Let(Geo(lat, lng).dist_eu, LAMBDA dist_eu :
    Let(LanguagesTotal(review_languages), LAMBDA total :
        LET proximity_score == SCALE - dist_eu
            price_score == IF price_level # 0 /\ price_level >= 3
                           THEN ((price_level - 2) * SCALE) \div 2 ELSE 0
            en == IF "en" \in DOMAIN review_languages THEN review_languages["en"] ELSE 0
            language_score == IF total > 0 /\ 10 * en > 7 * total THEN 5000 ELSE 0
        IN  IF dist_eu > 10000 THEN 0
            ELSE Mul(proximity_score,
                     (4 * price_score + 3 * language_score + 3 * SCALE) \div 10)))

----------------------------------------------------------------------------
(* SCORE COMPOSITION: brussels_reranking.py *)

\* A weight table whose guide weight was raised without rebalancing the others.
POSITIVE_WEIGHTS_Unbalanced ==
    [base_quality |-> 3200, ml_residual |-> 1800, scarcity |-> 1200, independent |-> 1000,
     guide |-> 1000, diaspora |-> 700, reddit |-> 500, bruxellois |-> 400,
     family_name |-> 200, specificity |-> 100, cuisine_rarity |-> 100]

\* POSITIVE_WEIGHTS and PENALTY_CAPS, in fixed point.
POSITIVE_WEIGHTS ==
    [base_quality |-> 3200, ml_residual |-> 1800, scarcity |-> 1200, independent |-> 1000,
     guide |-> 800, diaspora |-> 700, reddit |-> 500, bruxellois |-> 400,
     family_name |-> 200, specificity |-> 100, cuisine_rarity |-> 100]

PENALTY_CAPS ==
    [tourist_trap |-> -1500, chain |-> -1000, low_review |-> -1500, eu_bubble |-> -300,
     price_quality |-> -1000, shop |-> -8000]

RECURSIVE SumFields(_, _)
SumFields(r, keys) ==
    IF keys = {} THEN 0
    ELSE LET k == CHOOSE x \in keys : TRUE IN r[k] + SumFields(r, keys \ {k})

\* sum(POSITIVE_WEIGHTS.values())
PositiveWeightsSum == SumFields(POSITIVE_WEIGHTS, DOMAIN POSITIVE_WEIGHTS)

KNOWN_FRITKOTS == <<<<"m","a","i","s","o","n"," ","a","n","t","o","i","n","e">>, <<"c","h","e","z"," ","c","l","e","m","e","n","t","i","n","e">>, <<"l","a"," ","b","a","r","a","q","u","e"," ","U+00E0"," ","f","r","i","t","e","s">>>>
fritkot_terms == <<<<"f","r","i","t">>, <<"f","r","i","t","k","o","t">>, <<"f","r","i","t","u","u","r">>, <<"f","r","i","t","e","r","i","e">>, <<"f","r","i","t","u","r","e">>>>
hipster_keywords == <<<<"e","a","t","e","r","y">>, <<"k","i","t","c","h","e","n">>, <<"f","a","c","t","o","r","y">>, <<"l","a","b">>, <<"w","o","r","k","s","h","o","p">>, <<"s","t","u","d","i","o">>, <<"h","o","u","s","e">>, <<"c","o","r","n","e","r">>, <<"s","p","o","t">>>>
non_restaurant_locations == <<<<"w","o","l","f">>, <<"f","o","o","d"," ","m","a","r","k","e","t">>, <<"f","o","o","d"," ","h","a","l","l">>, <<"c","a","s","i","n","o">>, <<"v","i","a","g","e">>, <<"h","o","t","e","l"," ","r","e","s","t","a","u","r","a","n","t">>, <<"s","t","a","t","i","o","n">>, <<"g","a","r","e">>, <<"s","n","c","b">>, <<"n","m","b","s">>>>

\* math.exp(-(x - mu)^2 / (2 * sigma^2)) for whole x, mu and two_sigma_sq
Gauss(x, mu, two_sigma_sq) == ExpNeg((((x - mu) * (x - mu)) * SCALE) \div two_sigma_sq)

\* _calculate_review_adjustment(review_count, cuisine, name, tier)
calculate_review_adjustment(review_count, cuisine, name, tier) ==
    IF review_count < 25
    THEN -Mul(3000, SCALE - sigmoid(review_count, 15, 2000))
    ELSE IF review_count <= 150 THEN Mul(500, Gauss(review_count, 75, 3200))
    ELSE IF review_count <= 600 THEN Mul(500, Gauss(review_count, 300, 45000))
    ELSE IF review_count <= 1200
         THEN Mul(200, SCALE - sigmoid(review_count, 900, 50))
    ELSE IF /\ cuisine \in {"Fast Food", "Belgian"}
            /\ Let(Lower(name), LAMBDA name_lower :
                   AnyIn(fritkot_terms, name_lower) \/ AnyIn(KNOWN_FRITKOTS, name_lower))
         THEN 0
    ELSE IF tier \in {"local_foodie", "diaspora_hub", "underexplored"}
         THEN Max(-1000, -Mul(300, sigmoid(review_count, 2000, 10)))
    ELSE Max(-2000, -Mul(800, sigmoid(review_count, 1500, 20)))

\* A diaspora bonus without the tourist-trap gate.
calculate_diaspora_bonus_ungated(cuisine, commune, lat, lng, review_languages, name, address, price_level, rating, tourist_trap_raw) ==
    Let(diaspora_bonus_score(cuisine, commune, lat, lng, review_languages), LAMBDA diaspora :
        LET score1 == IF name # <<>> /\ AnyIn(hipster_keywords, Lower(name))
                      THEN Mul(diaspora[1], 3000) ELSE diaspora[1]
            score2 == IF price_level = 4 THEN Mul(score1, 2000) ELSE score1
            combined == Lower(name \o <<" ">> \o address)
        IN  IF rating # 0 /\ rating < 35 THEN <<0, NoStreet>>
            ELSE IF name # <<>> /\ address # <<>>
                    /\ AnyIn(non_restaurant_locations, combined)
                 THEN <<0, NoStreet>>
            ELSE <<Mul(POSITIVE_WEIGHTS.diaspora, score2), diaspora[2]>>)

\* _calculate_diaspora_bonus(...): <<bonus_value, street_name>>.
calculate_diaspora_bonus(cuisine, commune, lat, lng, review_languages, name, address, price_level, rating, tourist_trap_raw) ==
    Let(diaspora_bonus_score(cuisine, commune, lat, lng, review_languages), LAMBDA diaspora :
        LET score1 == IF name # <<>> /\ AnyIn(hipster_keywords, Lower(name))
                      THEN Mul(diaspora[1], 3000) ELSE diaspora[1]
            score2 == IF price_level = 4 THEN Mul(score1, 2000) ELSE score1
            combined == Lower(name \o <<" ">> \o address)
        IN  IF tourist_trap_raw > 3000 THEN <<0, NoStreet>>
            ELSE IF rating # 0 /\ rating < 35 THEN <<0, NoStreet>>
            ELSE IF name # <<>> /\ address # <<>>
                    /\ AnyIn(non_restaurant_locations, combined)
                 THEN <<0, NoStreet>>
            ELSE <<Mul(POSITIVE_WEIGHTS.diaspora, score2), diaspora[2]>>)

\* _calculate_value_bonus(price_level, rating)
calculate_value_bonus(price_level, rating) ==
    IF price_level = 0 \/ rating = 0 THEN 0
    ELSE IF price_level = 1 /\ rating >= 45 THEN 400
    ELSE IF price_level = 1 /\ rating >= 42 THEN 200
    ELSE IF price_level = 2 /\ rating >= 46 THEN 200
    ELSE IF price_level = 2 /\ rating >= 44 THEN 100
    ELSE 0

\* _calculate_price_quality_penalty(price_level, rating)
calculate_price_quality_penalty(price_level, rating) ==
    IF price_level = 0 \/ rating = 0 THEN 0
    ELSE IF price_level = 4 /\ rating < 45 THEN -(100 * (45 - rating))
    ELSE IF price_level = 3 /\ rating < 43 THEN -(60 * (43 - rating))
    ELSE 0

\* A guide bonus that adds the bonuses of all the guides that list the name.
calculate_guide_bonus_stacking(name) ==
    Let(has_michelin_recognition(name), LAMBDA michelin_stars :
    Let(has_bib_gourmand(name), LAMBDA is_bib_gourmand :
    Let(has_gault_millau(name), LAMBDA is_gault_millau :
        [bonus |-> (IF michelin_stars >= 2 THEN 800 ELSE IF michelin_stars = 1 THEN 600 ELSE 0)
                   + (IF is_bib_gourmand THEN 400 ELSE 0)
                   + (IF is_gault_millau THEN 300 ELSE 0),
         michelin_stars |-> michelin_stars,
         is_bib_gourmand |-> is_bib_gourmand,
         is_gault_millau |-> is_gault_millau])))

\* _calculate_guide_bonus(name): the highest applicable bonus only.
calculate_guide_bonus(name) ==
    Let(has_michelin_recognition(name), LAMBDA michelin_stars :
    Let(has_bib_gourmand(name), LAMBDA is_bib_gourmand :
    Let(has_gault_millau(name), LAMBDA is_gault_millau :
        [bonus |-> IF michelin_stars >= 2 THEN 800
                   ELSE IF michelin_stars = 1 THEN 600
                   ELSE IF is_bib_gourmand THEN 400
                   ELSE IF is_gault_millau THEN 300
                   ELSE 0,
         michelin_stars |-> michelin_stars,
         is_bib_gourmand |-> is_bib_gourmand,
         is_gault_millau |-> is_gault_millau])))

\* _calculate_low_review_penalty(review_count, rating)
calculate_low_review_penalty(review_count, rating) ==
    LET extremity == IF rating = 50 THEN 10000
                     ELSE IF rating >= 48 THEN 8000
                     ELSE IF rating >= 45 THEN 5000
                     ELSE IF rating >= 40 THEN 2000
                     ELSE 0
    IN  IF review_count >= 200 THEN 0
        ELSE -Mul(Mul(1500, SCALE - confidence_weight(review_count)), extremity)

\* A tier mapping with exclusive lower bounds.
determine_tier_exclusive(total_score) ==
    IF total_score > 5500 THEN "Chef's Kiss"
    ELSE IF total_score > 4800 THEN "Kitchen Approved"
    ELSE IF total_score > 3000 THEN "Workable"
    ELSE "Line Cook Shrug"

\* _determine_tier(total_score)
determine_tier(total_score) ==
    IF total_score >= 5500 THEN "Chef's Kiss"
    ELSE IF total_score >= 4800 THEN "Kitchen Approved"
    ELSE IF total_score >= 3000 THEN "Workable"
    ELSE "Line Cook Shrug"

\* get_afsca_score(name, address) > 0 given the loaded certification data,
\* for match_restaurant's exact-name branch: the lowercased, stripped name is
\* a certified establishment's name.
has_afsca_smiley(afsca, name) ==
    \E k \in 1..Len(afsca) : afsca[k] = Strip(Lower(name))

----------------------------------------------------------------------------
(* RECORD NAMES.  The names of the records of this model: names the guide
   lists, the chain lists, the shop list and the family patterns match, and
   names they do not. *)
NameCommeChezSoi == <<"C","o","m","m","e"," ","C","h","e","z"," ","S","o","i">>
NameLaPaix == <<"L","a"," ","P","a","i","x">>
NameGlacierdelaPaix == <<"G","l","a","c","i","e","r"," ","d","e"," ","l","a"," ","P","a","i","x">>
NameChezMarie == <<"C","h","e","z"," ","M","a","r","i","e">>
NameMaisonAntoine == <<"M","a","i","s","o","n"," ","A","n","t","o","i","n","e">>
NameNeuhaus == <<"N","e","u","h","a","u","s">>
NameWokPalace == <<"W","o","k"," ","P","a","l","a","c","e">>
NameQuick == <<"Q","u","i","c","k">>
NameOTacos == <<"O","'","T","a","c","o","s">>
NameSelecto == <<"S","e","l","e","c","t","o">>
NameBarge == <<"B","a","r","g","e">>
NameRougeTomate == <<"R","o","u","g","e"," ","T","o","m","a","t","e">>
NameCurryHouse == <<"C","u","r","r","y"," ","H","o","u","s","e">>
NameTrattoriaRoma == <<"T","r","a","t","t","o","r","i","a"," ","R","o","m","a">>
NameFriterieduCafe == <<"F","r","i","t","e","r","i","e"," ","d","u"," ","C","a","f","U+00E9">>
NameQuartz == <<"Q","u","a","r","t","z">>
NameCrabClub == <<"C","r","a","b"," ","C","l","u","b">>
NameKwint == <<"K","w","i","n","t">>
NameBonBon == <<"B","o","n"," ","B","o","n">>
NameMamaRoma == <<"M","a","m","a"," ","R","o","m","a">>
NameDelhaizeFoodMarket == <<"D","e","l","h","a","i","z","e"," ","F","o","o","d"," ","M","a","r","k","e","t">>
NameFritland == <<"F","r","i","t","l","a","n","d">>
NameAuVieuxSaintMartin == <<"A","u"," ","V","i","e","u","x"," ","S","a","i","n","t"," ","M","a","r","t","i","n">>
NameChezLolai == <<"C","h","e","z"," ","L","o","l","a","U+00EF">>

NamePool ==
    {NameCommeChezSoi, NameLaPaix, NameGlacierdelaPaix, NameChezMarie, NameMaisonAntoine,
     NameNeuhaus, NameWokPalace, NameQuick, NameOTacos, NameSelecto,
     NameBarge, NameRougeTomate, NameCurryHouse, NameTrattoriaRoma, NameFriterieduCafe,
     NameQuartz, NameCrabClub, NameKwint, NameBonBon, NameMamaRoma,
     NameDelhaizeFoodMarket, NameFritland, NameAuVieuxSaintMartin, NameChezLolai}

\* What the name lookups return for a name.
NameFacts(name) ==
    [is_shop |-> is_non_restaurant_shop(name),
     is_chain_restaurant |-> is_chain_restaurant(name),
     detect_chain |-> detect_chain(name),
     guide |-> calculate_guide_bonus(name),
     family |-> is_family_restaurant_name(name)]

\* NameFacts of the names of the pool, computed once.
NameTable == [name \in NamePool |-> NameFacts(name)]

\* NameFacts(name), read from the table where the name is in the pool.
Name(name) == NameTable[name]

\* total = max(0.0, min(1.0, total))
\* A clamp that forgets the lower bound.
ClampScoreNoFloor(total) == Min(SCALE, total)

ClampScore(total) == Max(0, Min(SCALE, total))

\* calculate_brussels_score(restaurant, commune_review_totals,
\* cuisine_counts_by_commune), given the community mentions and the hygiene
\* data the module-level caches hold when it runs.
calculate_brussels_score(restaurant, cuisine_counts_by_commune, mentions, afsca) ==
    LET name == restaurant.name
        address == restaurant.address
        lat == restaurant.lat
        lng == restaurant.lng
        rating == restaurant.rating
        residual == IF "residual" \in DOMAIN restaurant THEN restaurant.residual ELSE 0
        cuisine == restaurant.cuisine
        review_count == restaurant.review_count
        is_chain == restaurant.is_chain
        price_level == restaurant.price_numeric
        review_languages == restaurant.review_languages
    IN
    Let(Geo(lat, lng), LAMBDA geo :
    Let(Name(name), LAMBDA name_facts :
    Let(IF geo.neighborhood # NoNeighborhood THEN geo.neighborhood.tier
        ELSE CommuneTier(geo.commune), LAMBDA tier :
    Let(confidence_weight(review_count), LAMBDA conf :
    Let(calculate_review_adjustment(review_count, cuisine, name, tier),
        LAMBDA review_adjustment :
    Let(tourist_trap_score(lat, lng, rating, review_count), LAMBDA tourist_trap_raw :
    Let(calculate_diaspora_bonus(cuisine, geo.commune, lat, lng, review_languages, name,
                                 address, price_level, rating, tourist_trap_raw),
        LAMBDA diaspora :
    Let(unified_scarcity_score(restaurant), LAMBDA scarcity :
    Let(reddit_community_score(mentions, name, review_count), LAMBDA reddit :
    Let(LET commune == geo.commune
            raw_quality == IF rating # 0 THEN (rating * SCALE) \div 50 ELSE 0
            raw_residual == IF residual = NaN THEN -SCALE
                            ELSE Min(SCALE, Max(-SCALE, residual * 200))
            collinearity_factor == IF review_adjustment >= 0 THEN SCALE ELSE 5000
            guide == name_facts.guide
            family == name_facts.family
        IN  [review_adjustment |-> review_adjustment,
             base_quality |-> Mul(Mul(POSITIVE_WEIGHTS.base_quality, raw_quality),
                                  (SCALE + conf) \div 2),
             residual_score |-> Mul(Mul(POSITIVE_WEIGHTS.ml_residual, raw_residual), conf),
             tourist_penalty |-> Mul(Mul(PENALTY_CAPS.tourist_trap, tourist_trap_raw),
                                     collinearity_factor),
             diaspora_bonus |-> diaspora[1],
             independent_bonus |-> IF is_chain THEN 0 ELSE POSITIVE_WEIGHTS.independent,
             chain_penalty |-> IF is_chain THEN PENALTY_CAPS.chain ELSE 0,
             rarity_bonus |-> Mul(POSITIVE_WEIGHTS.cuisine_rarity,
                                  cuisine_rarity_score(cuisine, commune,
                                                       cuisine_counts_by_commune)),
             eu_penalty |-> Mul(PENALTY_CAPS.eu_bubble,
                                eu_bubble_penalty(lat, lng, price_level, review_languages)),
             price_quality_penalty |-> calculate_price_quality_penalty(price_level, rating),
             value_bonus |-> calculate_value_bonus(price_level, rating),
             scarcity_bonus |-> Mul(POSITIVE_WEIGHTS.scarcity, scarcity.total),
             guide_bonus |-> guide.bonus,
             reddit_bonus |-> Mul(POSITIVE_WEIGHTS.reddit, reddit[1]),
             low_review_penalty |-> calculate_low_review_penalty(review_count, rating),
             family_bonus |-> IF family[1] /\ ~is_chain THEN POSITIVE_WEIGHTS.family_name
                              ELSE 0,
             specificity_bonus |-> Mul(POSITIVE_WEIGHTS.specificity,
                                       get_cuisine_specificity_bonus(cuisine)),
             shop_penalty |-> IF name_facts.is_shop THEN PENALTY_CAPS.shop ELSE 0,
             bruxellois_bonus |-> Mul(POSITIVE_WEIGHTS.bruxellois,
                                      bruxellois_authenticity_score(name, commune))],
        LAMBDA components :
    Let(components.review_adjustment + components.base_quality + components.residual_score
        + components.tourist_penalty + components.diaspora_bonus
        + components.independent_bonus + components.chain_penalty + components.rarity_bonus
        + components.eu_penalty + components.price_quality_penalty + components.value_bonus
        + components.scarcity_bonus + components.guide_bonus + components.reddit_bonus
        + components.low_review_penalty + components.family_bonus
        + components.specificity_bonus + components.shop_penalty
        + components.bruxellois_bonus, LAMBDA total :
    Let(ClampScore(total), LAMBDA clamped :
        [brussels_score |-> clamped,
         raw_total |-> total,
         commune |-> geo.commune,
         neighborhood |-> geo.neighborhood.name,
         diaspora_street |-> diaspora[2],
         commune_tier |-> tier,
         tier |-> determine_tier(clamped),
         is_rare_cuisine |-> cuisine \in DOMAIN RARE_CUISINES_BRUSSELS,
         michelin_stars |-> name_facts.guide.michelin_stars,
         bib_gourmand |-> name_facts.guide.is_bib_gourmand,
         gault_millau |-> name_facts.guide.is_gault_millau,
         reddit_mentions |-> reddit[2],
         has_afsca_smiley |-> has_afsca_smiley(afsca, name),
         is_family_restaurant |-> name_facts.family[1],
         family_pattern |-> name_facts.family[2],
         scarcity_components |-> scarcity.components,
         tourist_trap_raw |-> tourist_trap_raw,
         confidence |-> conf,
         components |-> components]))))))))))))

----------------------------------------------------------------------------
(* THE RECORDS SCORED.  Ratings are in tenths of a star, residuals in
   hundredths, review counts whole. *)

\* Opening hours: none, a string that is not a list, the standard week
\* (11 AM - 10 PM daily), a week with service coupe, late nights, few late
\* nights (lark and owl at once, the lark or the owl the stronger), lunch
\* only, and a week without time ranges.
HoursNone ==
    [kind |-> "none", days |-> <<
      >>]
HoursText ==
    [kind |-> "text", days |-> <<
      >>]
HoursStandard ==
    [kind |-> "week", days |-> <<
      [closed |-> FALSE, shifts |-> <<[open_hour |-> 11, open_ampm |-> "AM", close_hour |-> 10, close_ampm |-> "PM"]>>],
      [closed |-> FALSE, shifts |-> <<[open_hour |-> 11, open_ampm |-> "AM", close_hour |-> 10, close_ampm |-> "PM"]>>],
      [closed |-> FALSE, shifts |-> <<[open_hour |-> 11, open_ampm |-> "AM", close_hour |-> 10, close_ampm |-> "PM"]>>],
      [closed |-> FALSE, shifts |-> <<[open_hour |-> 11, open_ampm |-> "AM", close_hour |-> 10, close_ampm |-> "PM"]>>],
      [closed |-> FALSE, shifts |-> <<[open_hour |-> 11, open_ampm |-> "AM", close_hour |-> 10, close_ampm |-> "PM"]>>],
      [closed |-> FALSE, shifts |-> <<[open_hour |-> 11, open_ampm |-> "AM", close_hour |-> 10, close_ampm |-> "PM"]>>],
      [closed |-> FALSE, shifts |-> <<[open_hour |-> 11, open_ampm |-> "AM", close_hour |-> 10, close_ampm |-> "PM"]>>]>>]
HoursCoupe ==
    [kind |-> "week", days |-> <<
      [closed |-> TRUE, shifts |-> <<>>],
      [closed |-> FALSE, shifts |-> <<[open_hour |-> 12, open_ampm |-> None, close_hour |-> 2, close_ampm |-> "PM"], [open_hour |-> 7, open_ampm |-> None, close_hour |-> 10, close_ampm |-> "PM"]>>],
      [closed |-> FALSE, shifts |-> <<[open_hour |-> 12, open_ampm |-> None, close_hour |-> 2, close_ampm |-> "PM"], [open_hour |-> 7, open_ampm |-> None, close_hour |-> 10, close_ampm |-> "PM"]>>],
      [closed |-> FALSE, shifts |-> <<[open_hour |-> 12, open_ampm |-> None, close_hour |-> 2, close_ampm |-> "PM"], [open_hour |-> 7, open_ampm |-> None, close_hour |-> 10, close_ampm |-> "PM"]>>],
      [closed |-> FALSE, shifts |-> <<[open_hour |-> 12, open_ampm |-> None, close_hour |-> 2, close_ampm |-> "PM"], [open_hour |-> 7, open_ampm |-> None, close_hour |-> 10, close_ampm |-> "PM"]>>],
      [closed |-> FALSE, shifts |-> <<[open_hour |-> 12, open_ampm |-> None, close_hour |-> 2, close_ampm |-> "PM"], [open_hour |-> 7, open_ampm |-> None, close_hour |-> 10, close_ampm |-> "PM"]>>],
      [closed |-> TRUE, shifts |-> <<>>]>>]
HoursLate ==
    [kind |-> "week", days |-> <<
      [closed |-> FALSE, shifts |-> <<[open_hour |-> 6, open_ampm |-> "PM", close_hour |-> 2, close_ampm |-> "AM"]>>],
      [closed |-> FALSE, shifts |-> <<[open_hour |-> 6, open_ampm |-> "PM", close_hour |-> 2, close_ampm |-> "AM"]>>],
      [closed |-> FALSE, shifts |-> <<[open_hour |-> 6, open_ampm |-> "PM", close_hour |-> 2, close_ampm |-> "AM"]>>],
      [closed |-> FALSE, shifts |-> <<[open_hour |-> 6, open_ampm |-> "PM", close_hour |-> 2, close_ampm |-> "AM"]>>],
      [closed |-> FALSE, shifts |-> <<[open_hour |-> 6, open_ampm |-> "PM", close_hour |-> 2, close_ampm |-> "AM"]>>],
      [closed |-> FALSE, shifts |-> <<[open_hour |-> 6, open_ampm |-> "PM", close_hour |-> 2, close_ampm |-> "AM"]>>],
      [closed |-> FALSE, shifts |-> <<[open_hour |-> 6, open_ampm |-> "PM", close_hour |-> 2, close_ampm |-> "AM"]>>]>>]
HoursBothLark ==
    [kind |-> "week", days |-> <<
      [closed |-> TRUE, shifts |-> <<>>],
      [closed |-> TRUE, shifts |-> <<>>],
      [closed |-> TRUE, shifts |-> <<>>],
      [closed |-> FALSE, shifts |-> <<[open_hour |-> 10, open_ampm |-> "PM", close_hour |-> 3, close_ampm |-> "AM"]>>],
      [closed |-> FALSE, shifts |-> <<[open_hour |-> 10, open_ampm |-> "PM", close_hour |-> 3, close_ampm |-> "AM"]>>],
      [closed |-> FALSE, shifts |-> <<[open_hour |-> 10, open_ampm |-> "PM", close_hour |-> 3, close_ampm |-> "AM"]>>],
      [closed |-> FALSE, shifts |-> <<[open_hour |-> 10, open_ampm |-> "PM", close_hour |-> 3, close_ampm |-> "AM"]>>]>>]
HoursBothOwl ==
    [kind |-> "week", days |-> <<
      [closed |-> TRUE, shifts |-> <<>>],
      [closed |-> TRUE, shifts |-> <<>>],
      [closed |-> TRUE, shifts |-> <<>>],
      [closed |-> FALSE, shifts |-> <<[open_hour |-> 4, open_ampm |-> "PM", close_hour |-> 2, close_ampm |-> "AM"]>>],
      [closed |-> FALSE, shifts |-> <<[open_hour |-> 4, open_ampm |-> "PM", close_hour |-> 2, close_ampm |-> "AM"]>>],
      [closed |-> FALSE, shifts |-> <<[open_hour |-> 4, open_ampm |-> "PM", close_hour |-> 2, close_ampm |-> "AM"]>>],
      [closed |-> FALSE, shifts |-> <<[open_hour |-> 4, open_ampm |-> "PM", close_hour |-> 2, close_ampm |-> "AM"]>>]>>]
HoursLunch ==
    [kind |-> "week", days |-> <<
      [closed |-> FALSE, shifts |-> <<[open_hour |-> 11, open_ampm |-> "AM", close_hour |-> 3, close_ampm |-> "PM"]>>],
      [closed |-> FALSE, shifts |-> <<[open_hour |-> 11, open_ampm |-> "AM", close_hour |-> 3, close_ampm |-> "PM"]>>],
      [closed |-> FALSE, shifts |-> <<[open_hour |-> 11, open_ampm |-> "AM", close_hour |-> 3, close_ampm |-> "PM"]>>],
      [closed |-> FALSE, shifts |-> <<[open_hour |-> 11, open_ampm |-> "AM", close_hour |-> 3, close_ampm |-> "PM"]>>],
      [closed |-> FALSE, shifts |-> <<[open_hour |-> 11, open_ampm |-> "AM", close_hour |-> 3, close_ampm |-> "PM"]>>],
      [closed |-> TRUE, shifts |-> <<>>],
      [closed |-> TRUE, shifts |-> <<>>]>>]
HoursAlways ==
    [kind |-> "week", days |-> <<
      [closed |-> FALSE, shifts |-> <<>>],
      [closed |-> FALSE, shifts |-> <<>>],
      [closed |-> FALSE, shifts |-> <<>>],
      [closed |-> FALSE, shifts |-> <<>>],
      [closed |-> FALSE, shifts |-> <<>>],
      [closed |-> FALSE, shifts |-> <<>>],
      [closed |-> FALSE, shifts |-> <<>>]>>]

HoursPool ==
    {HoursNone, HoursText, HoursStandard, HoursCoupe, HoursLate, HoursBothLark,
     HoursBothOwl, HoursLunch, HoursAlways}

\* review_languages mappings
LangEnglish == ("en" :> 8 @@ "fr" :> 2)
LangTurkish == ("tr" :> 5 @@ "en" :> 5)
LangFrench == ("fr" :> 9 @@ "ln" :> 1)

LanguagePool == {NoLanguages, LangEnglish, LangTurkish, LangFrench}

AddressRueNeuve == <<"R","u","e"," ","N","e","u","v","e"," ","1",","," ","1","0","0","0"," ","B","r","u","x","e","l","l","e","s">>
AddressGare == <<"G","a","r","e"," ","C","e","n","t","r","a","l","e",","," ","1","0","0","0"," ","B","r","u","x","e","l","l","e","s">>

CuisinePool == {"Belgian", "Italian", "Turkish", "Congolese", "Georgian", "Other"}

\* The review counts scored: both sides of every boundary of the review
\* bands, of the confidence ramp and of the volume thresholds.
ReviewCounts ==
    {0, 5, 9, 10, 19, 20, 24, 25, 34, 35, 49, 50, 150, 151, 199, 200, 500, 501, 600, 601,
     1000, 1001, 1200, 1201, 1500, 1501, 2000, 2001, 2999, 3000}

BaseRecord ==
    [name |-> NameTrattoriaRoma, address |-> AddressRueNeuve, lat |-> 508000, lng |-> 43333,
     rating |-> 45, residual |-> 10, cuisine |-> "Italian", review_count |-> 100,
     is_chain |-> FALSE, price_numeric |-> 2, review_languages |-> NoLanguages,
     opening_hours |-> HoursStandard]

NameSlice ==
    {[BaseRecord EXCEPT !.name = n, !.is_chain = c] : n \in NamePool, c \in BOOLEAN}

PlaceSlice ==
    {[BaseRecord EXCEPT !.lat = p[1], !.lng = p[2], !.cuisine = c, !.rating = r,
                        !.review_count = n] :
        p \in LocationPool, c \in CuisinePool, r \in {39, 45}, n \in {100, 3000}}

ReviewSlice ==
    {[BaseRecord EXCEPT !.review_count = n, !.rating = r] :
        n \in ReviewCounts, r \in {30, 40, 45, 48, 50}}

HoursSlice ==
    {[BaseRecord EXCEPT !.opening_hours = h, !.rating = r] :
        h \in HoursPool, r \in {39, 40, 45}}

PriceSlice ==
    {[BaseRecord EXCEPT !.lat = 508427, !.lng = 43827, !.price_numeric = p, !.rating = r,
                        !.review_languages = l] :
        p \in 0..4, r \in {10, 30, 42, 46}, l \in LanguagePool}

\* A record of a frame that has no residual column.
WithoutResidual(record) == [f \in DOMAIN record \ {"residual"} |-> record[f]]

ResidualSlice ==
    {[BaseRecord EXCEPT !.residual = x, !.review_count = n] :
        x \in {-80, -20, 0, 30, 70, NaN}, n \in {5, 9, 10, 50, 500}}
    \cup {WithoutResidual([BaseRecord EXCEPT !.review_count = n]) : n \in {5, 50, 500}}

SpecialSlice ==
    {[BaseRecord EXCEPT !.name = NameNeuhaus, !.rating = 10, !.price_numeric = 4,
                        !.is_chain = TRUE, !.review_count = 0],
     [BaseRecord EXCEPT !.name = NameMaisonAntoine, !.cuisine = "Belgian",
                        !.review_count = 3000],
     [BaseRecord EXCEPT !.name = NameFriterieduCafe, !.cuisine = "Belgian",
                        !.lat = 508800, !.lng = 43250, !.price_numeric = 1],
     [BaseRecord EXCEPT !.name = NameCurryHouse, !.cuisine = "Turkish",
                        !.lat = 508570, !.lng = 43680],
     [BaseRecord EXCEPT !.address = AddressGare, !.cuisine = "Turkish",
                        !.lat = 508570, !.lng = 43680],
     [BaseRecord EXCEPT !.address = <<>>, !.cuisine = "Turkish",
                        !.lat = 508570, !.lng = 43680, !.review_languages = LangTurkish],
     [BaseRecord EXCEPT !.cuisine = "Vietnamese", !.lat = 508467, !.lng = 43525,
                        !.address = <<>>, !.review_count = 3000, !.rating = 40],
     [BaseRecord EXCEPT !.cuisine = "Vietnamese", !.lat = 508467, !.lng = 43525,
                        !.address = <<>>, !.review_count = 60, !.rating = 46],
     [BaseRecord EXCEPT !.name = NameCommeChezSoi, !.rating = 48, !.price_numeric = 4,
                        !.residual = 70, !.review_count = 300,
                        !.opening_hours = HoursCoupe]}

RecordPool ==
    NameSlice \cup PlaceSlice \cup ReviewSlice \cup HoursSlice \cup PriceSlice
        \cup ResidualSlice \cup SpecialSlice

\* cuisine_counts_by_commune: the corpus statistics handed to the scorer.
StatsCity ==
    ("Bruxelles" :> ("Belgian" :> 6 @@ "Italian" :> 3 @@ "Other" :> 1)) @@
    ("Ixelles" :> ("Congolese" :> 2 @@ "Italian" :> 8)) @@
    ("Uccle" :> ("Italian" :> 1 @@ "French" :> 1))
StatsNone == <<>>
StatsPool == {StatsCity, StatsNone}

\* The community-mentions file: missing, or a list of mentions.
RedditMissing == [readable |-> FALSE, entries |-> <<>>]
RedditFileA ==
    [readable |-> TRUE, entries |->
        <<[name |-> <<"C","h","e","z"," ","M","a","r","i","e"," ">>, reddit_mentions |-> 3],
          [name |-> <<"S","E","L","E","C","T","O">>, reddit_mentions |-> 12],
          [name |-> <<"T","r","a","t","t","o","r","i","a"," ","R","o","m","a">>, reddit_mentions |-> 1]>>]
RedditFileB ==
    [readable |-> TRUE, entries |->
        <<[name |-> <<"c","h","e","z"," ","m","a","r","i","e">>, reddit_mentions |-> 10]>>]
RedditFiles == {RedditMissing, RedditFileA, RedditFileB}

\* The hygiene certification file: missing, or the certified names.
AfscaMissing == [readable |-> FALSE, entries |-> <<>>]
AfscaFileA == [readable |-> TRUE, entries |-> <<<<"m","a","i","s","o","n"," ","a","n","t","o","i","n","e">>, <<"c","h","e","z"," ","m","a","r","i","e">>>>]
AfscaFiles == {AfscaMissing, AfscaFileA}

----------------------------------------------------------------------------
(* FEATURE ENGINEERING: features.py *)

\* extract_cuisine: cuisine_map, Google place type -> cuisine.
cuisine_map ==
    "italian_restaurant" :> "Italian" @@ "pizza_restaurant" :> "Italian" @@ "french_restaurant" :> "French" @@
    "belgian_restaurant" :> "Belgian" @@ "japanese_restaurant" :> "Japanese" @@ "sushi_restaurant" :> "Japanese" @@
    "chinese_restaurant" :> "Chinese" @@ "thai_restaurant" :> "Thai" @@ "vietnamese_restaurant" :> "Vietnamese" @@
    "indian_restaurant" :> "Indian" @@ "mexican_restaurant" :> "Mexican" @@ "greek_restaurant" :> "Greek" @@
    "turkish_restaurant" :> "Turkish" @@ "lebanese_restaurant" :> "Lebanese" @@ "middle_eastern_restaurant" :> "Middle Eastern" @@
    "mediterranean_restaurant" :> "Mediterranean" @@ "seafood_restaurant" :> "Seafood" @@ "steak_house" :> "Steakhouse" @@
    "vegetarian_restaurant" :> "Vegetarian" @@ "vegan_restaurant" :> "Vegan" @@ "fast_food_restaurant" :> "Fast Food" @@
    "hamburger_restaurant" :> "Burger" @@ "american_restaurant" :> "American" @@ "korean_restaurant" :> "Korean" @@
    "spanish_restaurant" :> "Spanish" @@ "asian_restaurant" :> "Asian" @@ "african_restaurant" :> "African" @@
    "brazilian_restaurant" :> "Brazilian" @@ "cafe" :> "Cafe" @@ "coffee_shop" :> "Cafe" @@
    "bakery" :> "Bakery" @@ "bar" :> "Bar" @@ "brunch_restaurant" :> "Brunch" @@
    "breakfast_restaurant" :> "Breakfast"

\* extract_cuisine: the poke patterns that override the place type.
poke_patterns ==
    <<<<"p","o","k","U+00E9">>, <<"p","o","k","e"," ","b","o","w","l">>, <<"p","o","k","e"," ","b","a","r">>, <<"p","o","k","e"," ","h","o","u","s","e">>, <<"h","a","w","a","i","i","a","n"," ","p","o","k","e">>, <<"a","U+00E7","a","U+00ED"," ","b","o","w","l">>, <<"a","c","a","i"," ","b","o","w","l">>, <<"p","o","k","e","b","o","w","l">>, <<"m","y","p","o","k","e">>, <<"p","o","k","e","v","i","e">>>>

\* extract_cuisine: the name patterns in the order they are tried, each list
\* with the cuisine it returns.
NAME_CUISINE_PATTERNS ==
    <<
      [cuisine |-> "French", patterns |->
        <<<<"b","i","s","t","r","o">>, <<"b","r","a","s","s","e","r","i","e">>, <<"f","r","e","n","c","h">>, <<"p","a","r","i","s">>, <<"l","y","o","n">>, <<"p","r","o","v","e","n","c">>>>],
      [cuisine |-> "Belgian", patterns |->
        <<<<"b","e","l","g">>, <<"f","r","i","t","e","s">>, <<"g","a","u","f","r","e">>, <<"w","a","f","f","l","e">>, <<"m","o","u","l","e","s">>, <<"s","t","o","e","m","p">>, <<"c","a","r","b","o","n","a","d","e">>, <<"w","a","t","e","r","z","o","o","i">>>>],
      [cuisine |-> "Moroccan", patterns |->
        <<<<"b","a","b"," ">>, <<"d","a","r"," ">>, <<"r","i","a","d">>, <<"m","a","r","r","a","k","e","c","h">>, <<"c","a","s","a","b","l","a","n","c","a">>, <<"f","e","s"," ">>, <<"t","a","j","i","n","e">>, <<"t","a","g","i","n","e">>, <<"c","o","u","s","c","o","u","s">>, <<"m","a","r","o","c">>>>],
      [cuisine |-> "Congolese", patterns |->
        <<<<"c","o","n","g","o">>, <<"k","i","n","s","h","a","s","a">>, <<"m","a","m","a","n"," ">>, <<"m","a","m","i","e"," ">>, <<"c","h","e","z"," ","m","a","m","a","n">>, <<"p","o","n","d","u">>, <<"f","u","f","u">>>>],
      [cuisine |-> "Ethiopian", patterns |->
        <<<<"e","t","h","i","o","p","i","a">>, <<"e","r","i","t","r","e","a">>, <<"i","n","j","e","r","a">>, <<"a","d","d","i","s">>>>],
      [cuisine |-> "Syrian", patterns |->
        <<<<"s","y","r","i","a">>, <<"d","a","m","a","s">>, <<"a","l","e","p">>, <<"U+0634","U+0627","U+0645">>>>],
      [cuisine |-> "Portuguese", patterns |->
        <<<<"p","o","r","t","u","g","a","l">>, <<"p","o","r","t","u","g","a","l","i","a">>, <<"c","h","u","r","r","a","s","q","u","e","i","r","a">>, <<"p","a","s","t","e","l"," ","d","e"," ","n","a","t","a">>, <<"b","a","c","a","l","h","a","u">>, <<"l","i","s","b","o","n">>, <<"l","i","s","b","o","a">>, <<"l","i","s","b","o","n","n","e">>>>],
      [cuisine |-> "Spanish", patterns |->
        <<<<"t","a","p","a","s">>, <<"e","s","p","a","n","o","l">>, <<"e","s","p","a","U+00F1","o","l","a">>, <<"b","o","d","e","g","a">>, <<"i","b","e","r","i","c">>, <<"p","a","e","l","l","a">>>>],
      [cuisine |-> "Peruvian", patterns |->
        <<<<"p","e","r","u">>, <<"c","e","v","i","c","h","e">>, <<"m","a","c","h","u"," ","p","i","c","c","h","u">>, <<"i","n","c","a">>, <<"l","o","m","o"," ","s","a","l","t","a","d","o">>, <<"p","i","s","c","o">>>>],
      [cuisine |-> "Brazilian", patterns |->
        <<<<"b","r","a","s","i","l">>, <<"b","r","a","z","i","l">>, <<"c","h","u","r","r","a","s","c","o">>, <<"r","o","d","i","z","i","o">>, <<"f","e","i","j","o","a","d","a">>>>],
      [cuisine |-> "Mexican", patterns |->
        <<<<"m","e","x","i","c">>, <<"t","a","c","o">>, <<"b","u","r","r","i","t","o">>, <<"g","u","a","c","a","m","o","l","e">>, <<"n","a","c","h","o">>, <<"e","n","c","h","i","l","a","d","a">>>>],
      [cuisine |-> "Venezuelan", patterns |->
        <<<<"a","r","e","p","a">>, <<"v","e","n","e","z","u","e","l","a">>, <<"p","a","b","e","l","l","o","n">>>>],
      [cuisine |-> "Japanese", patterns |->
        <<<<"s","u","s","h","i">>, <<"m","a","k","i">>, <<"r","a","m","e","n">>, <<"u","d","o","n">>, <<"t","e","m","p","u","r","a">>, <<"i","z","a","k","a","y","a">>>>],
      [cuisine |-> "Korean", patterns |->
        <<<<"k","o","r","e","a">>, <<"k","o","r","e","a","n">>, <<"b","i","b","i","m","b","a","p">>, <<"k","i","m","c","h","i">>, <<"s","e","o","u","l">>, <<"b","u","l","g","o","g","i">>>>],
      [cuisine |-> "African", patterns |->
        <<<<"d","a","k","a","r">>, <<"s","e","n","e","g","a","l">>, <<"c","a","m","e","r","o","u","n">>, <<"c","a","m","e","r","o","o","n">>, <<"n","i","g","e","r","i","a">>, <<"g","h","a","n","a">>, <<"m","a","l","i"," ">>, <<"b","u","r","k","i","n","a">>, <<"t","o","g","o"," ">>, <<"b","e","n","i","n">>, <<"a","f","r","i","c">>>>],
      [cuisine |-> "Seafood", patterns |->
        <<<<"s","e","a","f","o","o","d">>, <<"f","i","s","h">>, <<"p","o","i","s","s","o","n">>, <<"f","r","u","i","t","s"," ","d","e"," ","m","e","r">>, <<"c","r","a","b">>, <<"l","o","b","s","t","e","r">>, <<"h","o","m","a","r","d">>, <<"p","U+00EA","c","h","e","r","i","e">>, <<"o","y","s","t","e","r">>, <<"h","u","i","t","r","e">>>>],
      [cuisine |-> "Steakhouse", patterns |->
        <<<<"s","t","e","a","k">>, <<"g","r","i","l","l">>, <<"b","b","q">>, <<"b","a","r","b","e","c","u","e">>, <<"b","u","t","c","h","e","r">>, <<"v","i","a","n","d","e">>, <<"m","e","a","t">>, <<"a","n","g","u","s">>, <<"w","a","g","y","u">>>>],
      [cuisine |-> "Middle Eastern", patterns |->
        <<<<"f","a","l","a","f","e","l">>, <<"h","u","m","m","u","s">>, <<"s","h","a","w","a","r","m","a">>, <<"k","o","s","h","e","r">>>>],
      [cuisine |-> "Afghan", patterns |->
        <<<<"a","f","g","h","a","n">>, <<"k","a","b","u","l">>, <<"k","a","b","o","b">>>>],
      [cuisine |-> "Nepali", patterns |->
        <<<<"n","e","p","a","l">>, <<"t","i","b","e","t">>, <<"h","i","m","a","l","a","y","a">>, <<"m","o","m","o">>, <<"k","a","t","h","m","a","n","d","u">>>>],
      [cuisine |-> "Armenian", patterns |->
        <<<<"a","r","m","e","n","i","a">>, <<"y","e","r","e","v","a","n">>>>],
      [cuisine |-> "Georgian", patterns |->
        <<<<"g","e","o","r","g","i","a">>, <<"k","h","a","c","h","a","p","u","r","i">>, <<"t","b","i","l","i","s","i">>>>],
      [cuisine |-> "Eastern European", patterns |->
        <<<<"r","u","s","s","i","a">>, <<"u","k","r","a","i","n","e">>, <<"p","o","l","a","n","d">>, <<"p","o","l","s","k","i">>, <<"p","i","e","r","o","g","i">>, <<"b","o","r","s","c","h","t">>, <<"p","e","l","m","e","n","i">>, <<"k","a","r","t","c","h","m","a">>>>],
      [cuisine |-> "Caribbean", patterns |->
        <<<<"c","a","r","i","b","b","e","a","n">>, <<"j","a","m","a","i","c","a","n">>, <<"h","a","i","t","i">>, <<"c","u","b","a">>, <<"d","o","m","i","n","i","c","a","n">>, <<"a","n","t","i","l","l","e","s">>>>],
      [cuisine |-> "Italian", patterns |->
        <<<<"p","i","z","z","a">>, <<"p","i","z","z","e","r","i","a">>, <<"p","a","s","t","a">>, <<"o","s","t","e","r","i","a">>, <<"t","r","a","t","t","o","r","i","a">>, <<"r","i","s","o","t","t","o">>, <<"l","a","s","a","g","n","a">>, <<"i","t","a","l","i","a","n","o">>, <<"i","t","a","l","i","a","n","a">>>>],
      [cuisine |-> "Burger", patterns |->
        <<<<"b","u","r","g","e","r">>>>],
      [cuisine |-> "Hawaiian", patterns |->
        <<<<"p","o","k","U+00E9">>, <<"p","o","k","e"," ","b","o","w","l">>, <<"h","a","w","a","i","i","a","n"," ","p","o","k","e">>, <<"a","U+00E7","a","U+00ED">>, <<"a","c","a","i">>>>],
      [cuisine |-> "Turkish", patterns |->
        <<<<"k","e","b","a","b">>, <<"k","e","b","a","p">>, <<"d","U+00F6","n","e","r">>, <<"d","o","n","e","r">>, <<"l","a","h","m","a","c","u","n">>, <<"p","i","d","e">>>>],
      [cuisine |-> "Indian", patterns |->
        <<<<"t","a","n","d","o","o","r","i">>, <<"m","a","s","a","l","a">>, <<"b","i","r","y","a","n","i">>, <<"t","i","k","k","a">>, <<"p","u","n","j","a","b">>, <<"d","e","l","h","i">>, <<"m","u","m","b","a","i">>>>],
      [cuisine |-> "Thai", patterns |->
        <<<<"t","h","a","i">>, <<"t","h","a","U+00EF">>, <<"b","a","n","g","k","o","k">>, <<"p","a","d"," ","t","h","a","i">>, <<"t","o","m"," ","y","u","m">>>>],
      [cuisine |-> "Vietnamese", patterns |->
        <<<<"v","i","e","t","n","a","m">>, <<"v","i","e","t","n","a","m","e","s","e">>, <<"b","a","n","h"," ","m","i">>, <<"s","a","i","g","o","n">>, <<"h","a","n","o","i">>, <<" ","p","h","o"," ">>, <<"p","h","o"," ">>>>],
      [cuisine |-> "Chinese", patterns |->
        <<<<"c","h","i","n","e","s","e">>, <<"c","h","i","n","o","i","s">>, <<"d","i","m"," ","s","u","m">>, <<"d","u","m","p","l","i","n","g">>, <<"p","e","k","i","n","g">>, <<"s","z","e","c","h","u","a","n">>, <<"c","a","n","t","o","n","e","s","e">>>>],
      [cuisine |-> "Asian", patterns |->
        <<<<"w","o","k"," ">>, <<" ","w","o","k">>, <<"a","s","i","a","n">>, <<"a","s","i","a","t","i","q","u","e">>>>],
      [cuisine |-> "Belgian", patterns |->
        <<<<"t","a","v","e","r","n","e">>, <<"f","r","i","t","u","u","r">>, <<"f","r","i","t","e","r","i","e">>, <<"f","r","i","t","k","o","t">>, <<"e","s","t","a","m","i","n","e","t">>, <<"s","n","a","c","k"," ","f","r","i","t">>>>],
      [cuisine |-> "Brunch", patterns |->
        <<<<"b","r","u","n","c","h">>, <<"b","r","e","a","k","f","a","s","t">>, <<"p","a","n","c","a","k","e">>, <<"o","n","t","b","i","j","t">>>>],
      [cuisine |-> "Vegetarian", patterns |->
        <<<<"s","a","l","a","d"," ","b","a","r">>, <<"s","a","l","a","d","b","a","r">>, <<"s","a","l","a","d","e"," ","b","a","r">>>>],
      [cuisine |-> "Greek", patterns |->
        <<<<"g","r","e","e","k">>, <<"g","r","e","c">>, <<"g","y","r","o","s">>, <<"s","o","u","v","l","a","k","i">>, <<"t","z","a","t","z","i","k","i">>, <<"z","o","r","b","a">>>>],
      [cuisine |-> "Lebanese", patterns |->
        <<<<"l","i","b","a","n">>, <<"l","e","b","a","n","e","s","e">>, <<"l","i","b","a","n","a","i","s">>, <<"m","e","z","z","e">>, <<"f","a","t","t","o","u","s","h">>, <<"t","a","b","o","u","l","e","h">>, <<"m","a","n","o","u","c","h","e">>>>]
    >>

\* str.endswith
EndsWith(s, sub) == OccursAt(sub, s, Len(s) - Len(sub) + 1)

StrPokeSp == <<"p","o","k","e"," ">>
StrSpPoke == <<" ","p","o","k","e">>
StrSpPokeSp == <<" ","p","o","k","e"," ">>

\* extract_cuisine: the first type of the list that cuisine_map knows, from
\* position k on; None when there is none.
RECURSIVE FirstMappedType(_, _, _)
FirstMappedType(map, types, k) ==
    IF k > Len(types) THEN None
    ELSE IF types[k] \in DOMAIN map THEN map[types[k]]
    ELSE FirstMappedType(map, types, k + 1)

\* extract_cuisine: the cuisine of the first pattern list, from list k on, one
\* of whose patterns occurs in the name; "Other" when there is none.
RECURSIVE FirstNameCuisine(_, _, _)
FirstNameCuisine(lists, name_lower, k) ==
    IF k > Len(lists) THEN "Other"
    ELSE IF AnyIn(lists[k].patterns, name_lower) THEN lists[k].cuisine
    ELSE FirstNameCuisine(lists, name_lower, k + 1)

\* extract_cuisine(types, primary_type, name)
extract_cuisine(types, primary_type, name) ==
    Let(Lower(name), LAMBDA name_lower :
    Let(cuisine_map, LAMBDA map :
        IF name # <<>> /\ AnyIn(poke_patterns, name_lower) THEN "Hawaiian"
        ELSE IF name # <<>>
                /\ \/ Contains(<<" ">> \o name_lower \o <<" ">>, StrSpPokeSp)
                   \/ StartsWith(name_lower, StrPokeSp)
                   \/ EndsWith(name_lower, StrSpPoke)
                   \/ Contains(name_lower, StrSpPoke)
             THEN "Hawaiian"
        ELSE IF primary_type # "" /\ primary_type \in DOMAIN map THEN map[primary_type]
        ELSE Let(FirstMappedType(map, types, 1), LAMBDA by_type :
             IF by_type # None THEN by_type
             ELSE IF name # <<>> THEN FirstNameCuisine(NAME_CUISINE_PATTERNS, name_lower, 1)
             ELSE "Other")))

\* parse_price_level: price_map
price_map ==
    "PRICE_LEVEL_FREE" :> 0 @@ "PRICE_LEVEL_INEXPENSIVE" :> 1 @@
    "PRICE_LEVEL_MODERATE" :> 2 @@ "PRICE_LEVEL_EXPENSIVE" :> 3 @@
    "PRICE_LEVEL_VERY_EXPENSIVE" :> 4

\* parse_price_level(price_level): price_map.get(price_level, 2)
parse_price_level(price_level) ==
    IF price_level \in DOMAIN price_map THEN price_map[price_level] ELSE 2

\* should_exclude(row)
should_exclude(row) ==
    \/ row.lat # NaN /\ row.lng # NaN /\ ~is_within_brussels(row.lat, row.lng)
    \/ AnySearch(EXCLUDE_PATTERNS, Lower(row.name))
    \/ row.primary_type \in EXCLUDE_TYPES

\* The rows of a frame that satisfy a test, in their order.
RECURSIVE Filter(_, _, _)
Filter(rows, Test(_), k) ==
    IF k > Len(rows) THEN <<>>
    ELSE (IF Test(rows[k]) THEN <<rows[k]>> ELSE <<>>) \o Filter(rows, Test, k + 1)

\* engineer_features: the columns it adds to a row that the later stages read.
FeatureRow(row) ==
    row @@ [is_chain |-> detect_chain(row.name),
            cuisine |-> extract_cuisine(row.types, row.primary_type, row.name),
            price_numeric |-> parse_price_level(row.price_level)]

\* engineer_features(df): rows without coordinates or rating and the excluded
\* rows are dropped, the others get their feature columns.
engineer_features(rows) ==
    Let(Filter(rows, LAMBDA row : row.lat # NaN /\ row.lng # NaN, 1), LAMBDA located :
    Let(Filter(located, LAMBDA row : row.rating # NaN, 1), LAMBDA rated :
    Let(Filter(rated, LAMBDA row : ~should_exclude(row), 1), LAMBDA kept :
        [k \in 1..Len(kept) |-> FeatureRow(kept[k])])))

\* calculate_residuals(df, model, X): residual = rating - predicted rating, in
\* hundredths of a star; predicted[k] is the model's prediction for row k.
calculate_residuals(rows, predicted) ==
    [k \in 1..Len(rows) |->
        rows[k] @@ [predicted_rating |-> predicted[k],
                    residual |-> rows[k].rating * 10 - predicted[k]]]

\* train_rating_model: the folds of cross_val_score(model, X, y, cv=5), which
\* raises on a frame of fewer rows than folds.
cv == 5

\* cluster_neighborhoods: KMeans(n_clusters=4), which raises on fewer cells
\* than clusters; the four cluster labels are then read by position.
n_clusters == 4

\* add_h3_features: h3.latlng_to_cell(lat, lng, 8).  The places of the model are
\* at the same point or more than 1.4 km apart and a cell of resolution 8 is
\* about 1 km across: two rows share a cell exactly when they share the point.
h3_index(row) == <<row.lat, row.lng>>

\* cluster_neighborhoods: the aggregates of the rows of one cell (the means as
\* sums beside the count).
CellAggregate(rows, cell) ==
    Let({k \in 1..Len(rows) : h3_index(rows[k]) = cell}, LAMBDA members :
        [restaurant_count |-> Cardinality(members),
         rating |-> SumValues([k \in members |-> rows[k].rating], members),
         residual |-> SumValues([k \in members |-> rows[k].residual], members),
         review_count |-> SumValues([k \in members |-> rows[k].review_count], members),
         is_chain |-> Cardinality({k \in members : rows[k].is_chain}),
         price_numeric |-> SumValues([k \in members |-> rows[k].price_numeric], members),
         cuisine |-> Cardinality({rows[k].cuisine : k \in members})])

\* cluster_neighborhoods: the points that are clustered, one per cell.
hex_features(rows) ==
    {CellAggregate(rows, cell) : cell \in {h3_index(rows[k]) : k \in 1..Len(rows)}}

----------------------------------------------------------------------------
(* THE RERANKING DRIVER: brussels_reranking.py, rerank_restaurants *)

\* The commune column, and the chain flag re-checked against
\* brussels_context's patterns: it overwrites the is_chain column.
WithCommuneAndChain(rows) ==
    [k \in 1..Len(rows) |->
        [rows[k] EXCEPT !.is_chain = Name(rows[k].name).is_chain_restaurant]
            @@ [commune |-> IF rows[k].lat # NaN /\ rows[k].lng # NaN
                            THEN Geo(rows[k].lat, rows[k].lng).commune
                            ELSE "Bruxelles"]]

\* cuisine_counts_by_commune: for each commune of the frame, the number of
\* rows of each of its cuisines (value_counts).
CuisineCountsByCommune(rows) ==
    [commune \in {rows[k].commune : k \in 1..Len(rows)} |->
        [cuisine \in {rows[k].cuisine : k \in {j \in 1..Len(rows) : rows[j].commune = commune}} |->
            Cardinality({k \in 1..Len(rows) :
                            rows[k].commune = commune /\ rows[k].cuisine = cuisine})]]

\* The columns the driver adds to a row from its score breakdown.
ScoredRow(row, r) ==
    row @@ [brussels_score |-> r.brussels_score,
            neighborhood |-> r.neighborhood,
            diaspora_street |-> r.diaspora_street,
            tier |-> r.tier,
            commune_tier |-> r.commune_tier,
            is_rare_cuisine |-> r.is_rare_cuisine,
            michelin_stars |-> r.michelin_stars,
            bib_gourmand |-> r.bib_gourmand,
            gault_millau |-> r.gault_millau,
            reddit_mentions |-> r.reddit_mentions,
            has_afsca_smiley |-> r.has_afsca_smiley,
            score_review_adjustment |-> r.components.review_adjustment,
            score_tourist_penalty |-> r.components.tourist_penalty,
            score_scarcity_bonus |-> r.components.scarcity_bonus,
            score_diaspora_bonus |-> r.components.diaspora_bonus,
            score_low_review_penalty |-> r.components.low_review_penalty]

\* The breakdown of every row of the frame, in the order of the rows.
ScoreRows(rows, cuisine_counts_by_commune, mentions, afsca) ==
    [k \in 1..Len(rows) |->
        calculate_brussels_score(rows[k], cuisine_counts_by_commune, mentions, afsca)]

\* A frame that keeps the shops.
KeepShops(rows) == rows

\* df = df[~df["is_shop"]]: the rows whose name is a shop's are removed.
RemoveShops(rows) ==
    Filter(rows, LAMBDA row : ~Name(row.name).is_shop, 1)

\* rerank_restaurants: NON_FOOD_TYPES
NON_FOOD_TYPES ==
    {"hotel", "motel", "hostel", "lodging", "sauna", "spa", "gym", "fitness_center",
     "beauty_salon", "hair_salon", "wellness_center", "massage", "public_bath",
     "furniture_store", "home_goods_store", "home_improvement_store", "clothing_store",
     "shopping_mall", "department_store", "movie_theater", "night_club", "casino"}

\* df = df[~non_food_mask]: the rows of a non-food primary type are removed.
\* The frames of this pipeline all have the primary_type column.
RemoveNonFood(rows) ==
    Filter(rows, LAMBDA row : row.primary_type \notin NON_FOOD_TYPES, 1)

\* rerank_restaurants(df) up to its sort: the frame with the re-checked chain
\* flag, scored and filtered, and the breakdowns its rows got.
rerank_restaurants(rows, mentions, afsca) ==
    Let(WithCommuneAndChain(rows), LAMBDA frame :
    Let(CuisineCountsByCommune(frame), LAMBDA cuisine_counts_by_commune :
    Let(ScoreRows(frame, cuisine_counts_by_commune, mentions, afsca), LAMBDA results :
        [frame |-> frame,
         cuisine_counts_by_commune |-> cuisine_counts_by_commune,
         results |-> results,
         kept |-> RemoveNonFood(RemoveShops(
                      [k \in 1..Len(frame) |-> ScoredRow(frame[k], results[k])]))])))

\* The rows of a frame in the order p.
Reorder(rows, p) == [k \in 1..Len(rows) |-> rows[p[k]]]

\* A frame in descending order of the Brussels score.
IsDescending(rows) ==
    \A k \in 1..(Len(rows) - 1) : rows[k].brussels_score >= rows[k + 1].brussels_score

----------------------------------------------------------------------------
(* THE STATE MACHINE *)

VARIABLES
    reddit_file,            \* data/reddit_mentions*.json on disk
    afsca_file,             \* data/afsca_smiley_raw.csv on disk
    reddit_mentions_cache,  \* brussels_reranking._reddit_mentions_cache
    afsca_cache,            \* afsca_hygiene._afsca_cache
    first_call,             \* <<>> or the first call of calculate_brussels_score
    last_call,              \* <<>> or its latest call: arguments and breakdown
    places,                 \* data/brussels_restaurants.json
    predictions,            \* data/restaurants_with_predictions.csv
    reranked,               \* data/restaurants_brussels_reranked.csv
    stage,                  \* "scraped", "failed", "predicted", "reranked": the scripts run
    unit_call,              \* <<>> or the latest call of a function run on its own
    cached_data,            \* app._cached_data
    request,                \* <<>> or the request the web application is answering
    response,               \* <<>> or the response that is being sent
    thread,                 \* the request threads of the web application, when it is threaded
    scraper,                \* the parallel review scraper: what its workers share
    worker                  \* the parallel review scraper: each worker's position and locals

vars == <<reddit_file, afsca_file, reddit_mentions_cache, afsca_cache, first_call,
          last_call, places, predictions, reranked, stage, unit_call, cached_data, request,
          response, thread, scraper, worker>>

scoring_vars == <<reddit_file, afsca_file, reddit_mentions_cache, afsca_cache, first_call,
                  last_call>>
pipeline_vars == <<places, predictions, reranked, stage>>
concurrent_vars == <<thread, scraper, worker>>
other_vars == <<unit_call, cached_data, request, response, thread, scraper, worker>>

\* A module-level cache before its first load (None).
CacheNone == [loaded |-> FALSE, data |-> <<>>]

\* A loader that reads the file at every call.
load_reddit_mentions_uncached(cache, file) ==
    [loaded |-> TRUE, data |-> MentionsOfFile(file)]

\* load_reddit_mentions(): the cache when it is loaded, else the file's
\* mentions ({} when the file is missing or unreadable).
load_reddit_mentions(cache, file) ==
    IF cache.loaded THEN cache
    ELSE [loaded |-> TRUE, data |-> MentionsOfFile(file)]

\* load_afsca_smiley_data(): the cache when it is loaded, else the file's
\* certified names ({} when the file is missing).
load_afsca_smiley_data(cache, file) ==
    IF cache.loaded THEN cache
    ELSE [loaded |-> TRUE, data |-> IF file.readable THEN file.entries ELSE <<>>]

\* One call of calculate_brussels_score: it loads both caches and returns the
\* breakdown.
Score(restaurant, cuisine_counts_by_commune) ==
    /\ reddit_mentions_cache' = load_reddit_mentions(reddit_mentions_cache, reddit_file)
    /\ afsca_cache' = load_afsca_smiley_data(afsca_cache, afsca_file)
    /\ last_call' =
          <<[restaurant |-> restaurant,
             cuisine_counts_by_commune |-> cuisine_counts_by_commune,
             breakdown |-> calculate_brussels_score(restaurant, cuisine_counts_by_commune,
                                                    reddit_mentions_cache'.data,
                                                    afsca_cache'.data)]>>
    /\ first_call' = IF first_call = <<>> THEN last_call' ELSE first_call
    /\ UNCHANGED <<reddit_file, afsca_file>>
    /\ UNCHANGED pipeline_vars
    /\ UNCHANGED other_vars

\* The least review count of the pool above n.
NextReviewCount(n) ==
    CHOOSE m \in ReviewCounts : m > n /\ \A k \in ReviewCounts : k > n => m <= k

\* The first call scores any record of the pool.
ScoreFirst ==
    /\ first_call = <<>>
    /\ \E r \in RecordPool, stats \in StatsPool : Score(r, stats)

\* The record of the first call is scored again with the same statistics.
ScoreAgain ==
    /\ first_call # <<>>
    /\ Score(first_call[1].restaurant, first_call[1].cuisine_counts_by_commune)

\* The record of the first call is scored with one more review.
AddReview ==
    /\ first_call # <<>>
    /\ Score([first_call[1].restaurant EXCEPT !.review_count = @ + 1],
             first_call[1].cuisine_counts_by_commune)

\* The record of the first call is scored with more reviews.
MoreReviews ==
    /\ first_call # <<>>
    /\ first_call[1].restaurant.review_count < SetMax(ReviewCounts)
    /\ Score([first_call[1].restaurant EXCEPT !.review_count = NextReviewCount(@)],
             first_call[1].cuisine_counts_by_commune)

\* The records scored while the files on disk change.
CachePool == {[BaseRecord EXCEPT !.name = n] : n \in {NameChezMarie, NameSelecto}}

\* The first call, on a record of the small pool.
CacheScoreFirst ==
    /\ first_call = <<>>
    /\ \E r \in CachePool, stats \in StatsPool : Score(r, stats)

\* Any record is scored after the first call.
ScoreOther ==
    /\ first_call # <<>>
    /\ \E r \in CachePool, stats \in StatsPool : Score(r, stats)

\* The community-mentions file is replaced or removed on disk.
RedditFileChange ==
    /\ \E f \in RedditFiles \ {reddit_file} : reddit_file' = f
    /\ UNCHANGED <<afsca_file, reddit_mentions_cache, afsca_cache, first_call, last_call>>
    /\ UNCHANGED pipeline_vars
    /\ UNCHANGED other_vars

\* The hygiene file is replaced or removed on disk.
AfscaFileChange ==
    /\ \E f \in AfscaFiles \ {afsca_file} : afsca_file' = f
    /\ UNCHANGED <<reddit_file, reddit_mentions_cache, afsca_cache, first_call, last_call>>
    /\ UNCHANGED pipeline_vars
    /\ UNCHANGED other_vars

\* Nothing scraped yet.
NoPipeline == places = <<>> /\ predictions = <<>> /\ reranked = <<>> /\ stage = "scraped"

\* No request thread runs; the review scraper has not been started.
NoThreads == <<>>

NoScraper == <<>>

NoWorkers == <<>>

NotConcurrent == thread = NoThreads /\ scraper = NoScraper /\ worker = NoWorkers

\* No function has been run on its own and no request has arrived.
NoOther ==
    /\ unit_call = <<>> /\ cached_data = CacheNone /\ request = <<>> /\ response = <<>>
    /\ NotConcurrent

Init ==
    /\ reddit_file = RedditFileA
    /\ afsca_file = AfscaFileA
    /\ reddit_mentions_cache = CacheNone
    /\ afsca_cache = CacheNone
    /\ first_call = <<>>
    /\ last_call = <<>>
    /\ NoPipeline
    /\ NoOther

Next == ScoreFirst \/ ScoreAgain \/ AddReview \/ MoreReviews

Spec == Init /\ [][Next]_vars

\* The scoring engine in a process that outlives changes of its data files.
InitCache ==
    /\ reddit_file \in RedditFiles
    /\ afsca_file \in AfscaFiles
    /\ reddit_mentions_cache = CacheNone
    /\ afsca_cache = CacheNone
    /\ first_call = <<>>
    /\ last_call = <<>>
    /\ NoPipeline
    /\ NoOther

NextCache ==
    CacheScoreFirst \/ ScoreAgain \/ ScoreOther \/ RedditFileChange \/ AfscaFileChange

SpecCache == InitCache /\ [][NextCache]_vars

----------------------------------------------------------------------------
(* THE PIPELINE: scraper.py, model.py main, brussels_reranking.py __main__ *)

\* The most places scraped.
MaxRows == 6

\* A place as the scraper stores it (parse_place).
BasePlace ==
    [id |-> "p1", name |-> NameTrattoriaRoma, address |-> AddressRueNeuve,
     lat |-> 508000, lng |-> 43333, rating |-> 45, review_count |-> 100,
     types |-> <<"italian_restaurant", "restaurant">>,
     primary_type |-> "italian_restaurant", price_level |-> "PRICE_LEVEL_MODERATE",
     opening_hours |-> HoursStandard, review_languages |-> NoLanguages]

\* The places the provider returns: restaurants, chains of either pattern
\* list, a chocolate shop, a supermarket, a hotel, a place without rating, a
\* place without coordinates, a place outside the region and a second branch
\* of the first restaurant.
PlacePool ==
    {BasePlace,
     [BasePlace EXCEPT !.id = "p2", !.name = NameWokPalace, !.lat = 508467, !.lng = 43525,
                       !.types = <<"restaurant">>, !.primary_type = "restaurant",
                       !.price_level = "PRICE_LEVEL_INEXPENSIVE"],
     [BasePlace EXCEPT !.id = "p3", !.name = NameNeuhaus, !.lat = 508467, !.lng = 43525,
                       !.types = <<"store", "food">>, !.primary_type = "store",
                       !.price_level = ""],
     [BasePlace EXCEPT !.id = "p4", !.name = NameQuick, !.types = <<"restaurant">>,
                       !.primary_type = "fast_food_restaurant", !.rating = 35,
                       !.lat = 508300, !.lng = 43690,
                       !.review_count = 1200, !.price_level = "PRICE_LEVEL_INEXPENSIVE"],
     [BasePlace EXCEPT !.id = "p5", !.name = NameOTacos, !.types = <<"restaurant">>,
                       !.primary_type = "", !.rating = 40, !.lat = 508570, !.lng = 43680],
     [BasePlace EXCEPT !.id = "p6", !.name = NameDelhaizeFoodMarket,
                       !.types = <<"supermarket">>, !.primary_type = "supermarket"],
     [BasePlace EXCEPT !.id = "p7", !.name = NameBarge, !.types = <<"hotel", "restaurant">>,
                       !.primary_type = "hotel"],
     [BasePlace EXCEPT !.id = "p8", !.name = NameKwint, !.rating = NaN,
                       !.review_count = 0],
     [BasePlace EXCEPT !.id = "p9", !.name = NameMamaRoma, !.lat = NaN, !.lng = NaN],
     [BasePlace EXCEPT !.id = "p10", !.name = NameBonBon, !.lat = 512000, !.lng = 44000],
     [BasePlace EXCEPT !.id = "p11", !.address = AddressGare]}

\* The order in which the provider returns the places.
PlaceOrder == <<"p1", "p2", "p3", "p4", "p5", "p6", "p7", "p8", "p9", "p10", "p11">>

PlaceRank(id) == CHOOSE k \in 1..Len(PlaceOrder) : PlaceOrder[k] = id

\* The ratings the baseline predictor returns, in hundredths of a star.
PredictedPool == {400, 450}

\* scraper.py: a place the provider returns is stored, once per id.
Scrape ==
    /\ stage \in {"scraped", "failed"}
    /\ Len(places) < MaxRows
    /\ \E place \in PlacePool :
          /\ \A k \in 1..Len(places) : PlaceRank(places[k].id) < PlaceRank(place.id)
          /\ places' = Append(places, place)
    /\ stage' = "scraped"
    /\ UNCHANGED <<predictions, reranked>>
    /\ UNCHANGED scoring_vars
    /\ UNCHANGED other_vars

\* model.py main: the features of the stored places, the baseline predictor's
\* rating and the residual of every row, saved as the predictions file.  main
\* raises, and saves nothing, when the cross-validation or the clustering
\* raises.
TrainModel ==
    /\ stage = "scraped"
    /\ \E rows \in {engineer_features(places)} :
          \/ /\ Len(rows) < cv
             /\ stage' = "failed"
             /\ UNCHANGED predictions
          \/ /\ Len(rows) >= cv
             /\ \E predicted \in [1..Len(rows) -> PredictedPool] :
                   \E df \in {calculate_residuals(rows, predicted)} :
                       IF Cardinality(hex_features(df)) >= n_clusters
                       THEN predictions' = df /\ stage' = "predicted"
                       ELSE stage' = "failed" /\ UNCHANGED predictions
    /\ UNCHANGED <<places, reranked>>
    /\ UNCHANGED scoring_vars
    /\ UNCHANGED other_vars

\* brussels_reranking.py __main__: the predictions file is read, reranked and
\* saved. Scoring loads both caches; the sort puts the rows in descending order
\* of their score and rows of equal score in an order it does not promise.
Rerank ==
    /\ stage = "predicted"
    /\ reddit_mentions_cache' = load_reddit_mentions(reddit_mentions_cache, reddit_file)
    /\ afsca_cache' = load_afsca_smiley_data(afsca_cache, afsca_file)
    /\ \E out \in {rerank_restaurants(predictions, reddit_mentions_cache'.data,
                                      afsca_cache'.data)} :
          /\ \E p \in Permutations(1..Len(out.kept)) :
                /\ IsDescending(Reorder(out.kept, p))
                /\ reranked' = Reorder(out.kept, p)
          /\ last_call' =
                <<[restaurant |-> out.frame[Len(out.frame)],
                   cuisine_counts_by_commune |-> out.cuisine_counts_by_commune,
                   breakdown |-> out.results[Len(out.frame)]]>>
          /\ first_call' =
                IF first_call # <<>> THEN first_call
                ELSE <<[restaurant |-> out.frame[1],
                        cuisine_counts_by_commune |-> out.cuisine_counts_by_commune,
                        breakdown |-> out.results[1]]>>
    /\ stage' = "reranked"
    /\ UNCHANGED <<reddit_file, afsca_file, places, predictions>>
    /\ UNCHANGED other_vars

\* The pipeline from an empty store.
NextRerank == Scrape \/ TrainModel \/ Rerank

SpecRerank == Init /\ [][NextRerank]_vars

----------------------------------------------------------------------------
(* FUNCTIONS RUN ON THEIR OWN *)

\* The composite scores a tier is determined for: every 0.0025 of [0, 1] and
\* the neighbours of the thresholds.
TierScores == {25 * k : k \in 0..400} \cup {2999, 3001, 4799, 4801, 5499, 5501}

\* The day descriptions of a list of opening hours.
DayPool ==
    {[closed |-> TRUE, shifts |-> <<>>],
     [closed |-> FALSE, shifts |-> <<>>],
     [closed |-> FALSE, shifts |-> <<[open_hour |-> 11, open_ampm |-> "AM",
                                      close_hour |-> 10, close_ampm |-> "PM"]>>]}

\* The longest list of day descriptions handed over as a list.
MaxListDays == 4

RECURSIVE DayLists(_)
DayLists(n) ==
    IF n = 0 THEN {<<>>}
    ELSE DayLists(n - 1) \cup
         {Append(days, day) : days \in {d \in DayLists(n - 1) : Len(d) = n - 1}, day \in DayPool}

\* The opening hours parsed: those of the records, and lists that were never
\* turned into text.
HoursInputs == HoursPool \cup {[kind |-> "list", days |-> days] : days \in DayLists(MaxListDays)}

\* parse_opening_hours is called on the opening hours of a record.
ParseOpeningHours ==
    /\ \E opening_hours \in HoursInputs :
          unit_call' = <<[opening_hours |-> opening_hours,
                          result |-> parse_opening_hours(opening_hours)]>>
    /\ UNCHANGED <<cached_data, request, response>> /\ UNCHANGED concurrent_vars
    /\ UNCHANGED scoring_vars
    /\ UNCHANGED pipeline_vars

NextHours == ParseOpeningHours

SpecHours == Init /\ [][NextHours]_vars

\* _determine_tier is called on a composite score.
DetermineTier ==
    /\ \E total_score \in TierScores :
          unit_call' = <<[total_score |-> total_score, tier |-> determine_tier(total_score)]>>
    /\ UNCHANGED <<cached_data, request, response>> /\ UNCHANGED concurrent_vars
    /\ UNCHANGED scoring_vars
    /\ UNCHANGED pipeline_vars

NextTier == DetermineTier

SpecTier == Init /\ [][NextTier]_vars

----------------------------------------------------------------------------
(* THE QUERY SURFACE: app.py *)

\* The columns of the predictions file and those the reranker adds, as far as
\* the endpoints read them.
PredictionColumns ==
    {"id", "name", "address", "lat", "lng", "rating", "review_count", "cuisine",
     "venue_type", "price_numeric", "is_chain", "predicted_rating", "residual",
     "google_maps_url", "opening_hours"}

RerankerColumns ==
    {"commune", "neighborhood", "tier", "brussels_score", "michelin_stars", "bib_gourmand",
     "gault_millau", "reddit_mentions", "has_afsca_smiley"}

\* pd.read_csv of a file of the data directory: its columns and its rows.  An
\* empty cell of the file (an empty address, a None google_maps_url or
\* neighborhood) is read as NaN: the field "missing" of a row names the columns
\* of its empty cells.
ReadCsv(columns, rows) ==
    [columns |-> columns,
     rows |-> [k \in 1..Len(rows) |-> [rows[k] EXCEPT !.missing = @ \cap columns]]]

\* load_data(): the cached frame; else the reranked file, else the predictions
\* file, which is then cached; None (nothing loaded) when neither file exists.
load_data(cache, files_stage, reranked_file, predictions_file) ==
    IF cache.loaded THEN cache
    ELSE IF files_stage = "reranked"
         THEN [loaded |-> TRUE,
               data |-> ReadCsv(PredictionColumns \cup RerankerColumns, reranked_file)]
    ELSE IF files_stage = "predicted"
         THEN [loaded |-> TRUE, data |-> ReadCsv(PredictionColumns, predictions_file)]
    ELSE CacheNone

\* jsonify(...) with a status: the body is an error message, or records: how
\* many, the rows they are (or, for the head of a sort, are taken from), the
\* column they are in descending order of (None for the order of the frame) and
\* whether rows of equal value are in the order of the frame ("first") or in an
\* order the sort does not promise; and the cells of those rows that are
\* written as NaN and as null.
ErrorResponse(status, error) == [status |-> status, error |-> error, records |-> None]

\* The NaN cells of the rows in the columns selected for the response.
NaNCells(df, keep, columns) ==
    UNION {{<<df.rows[k].id, column>> : column \in df.rows[k].missing \cap columns} :
              k \in keep}

\* jsonify(records): json.dumps writes a float NaN as NaN.  cleaned tells
\* that the view function has replaced the NaN values with None, which is
\* written as null.
RecordsResponse(df, keep, count, by, ties, columns, cleaned) ==
    [status |-> 200, error |-> None,
     records |-> [count |-> count, ids |-> {df.rows[k].id : k \in keep}, by |-> by,
                  ties |-> ties,
                  nan |-> IF cleaned THEN {} ELSE NaNCells(df, keep, columns),
                  null |-> IF cleaned THEN NaNCells(df, keep, columns) ELSE {}]]

\* An exception leaves the view function: Flask answers 500 Internal Server
\* Error.
UnhandledError(exception) == [status |-> 500, error |-> exception, records |-> None]

\* The columns each view function selects for its records, of those the frames
\* of the model have.
RestaurantColumns == PredictionColumns \cup RerankerColumns

GemsColumns ==
    {"name", "address", "cuisine", "rating", "review_count", "predicted_rating", "residual",
     "lat", "lng", "google_maps_url"}

BrusselsGemsColumns == GemsColumns \cup {"commune", "neighborhood", "tier", "brussels_score"}

DiasporaColumns ==
    {"name", "address", "cuisine", "rating", "review_count", "lat", "lng", "google_maps_url",
     "commune", "brussels_score"}

\* The ceiling of the limit parameter: min(limit, 500).
LIMIT_CEILING == 500

\* df.nlargest(n, column) with keep="first": the n rows of the largest values,
\* rows of equal value in the order of the frame; none for n <= 0.
nlargest(df, keep, n, column) ==
    IF n >= Cardinality(keep) THEN keep
    ELSE {k \in keep :
            Cardinality({j \in keep : \/ df.rows[j][column] > df.rows[k][column]
                                      \/ /\ df.rows[j][column] = df.rows[k][column]
                                         /\ j < k}) < n}

\* request.args.get("limit", 50, type=int) capped: min(limit, 500).
CappedLimit(args) == Min(IF args.limit = <<>> THEN 50 ELSE args.limit[1], LIMIT_CEILING)

DayNames == <<"Monday", "Tuesday", "Wednesday", "Thursday", "Friday", "Saturday", "Sunday">>

\* is_open_on_day(hours_str, day): hours that safe_parse_hours does not turn
\* into a list, and the empty list, count as open; else the first description
\* that starts with the day decides, and no such description means closed.
is_open_on_day(opening_hours, day) ==
    IF opening_hours.kind # "week" \/ opening_hours.days = <<>> THEN TRUE
    ELSE \E k \in 1..Len(opening_hours.days) :
            DayNames[k] = day /\ ~opening_hours.days[k].closed

diaspora_cuisines ==
    {"Congolese", "African", "Moroccan", "Turkish", "Lebanese", "Ethiopian", "Middle Eastern"}

\* The query parameters: a number that "if value:" tests is 0 when absent, a
\* flag is FALSE when absent, price_level and limit are <<>> or <<value>>, a
\* text is None when absent.

\* The columns api_restaurants reads without testing that the frame has them.
ColumnsRead(args) ==
    (IF args.min_rating # 0 \/ args.max_rating # 0 \/ args.sort_by = "rating"
     THEN {"rating"} ELSE {})
    \cup (IF args.cuisine \notin {None, "", "all"} \/ args.diaspora_only
          THEN {"cuisine"} ELSE {})
    \cup (IF args.min_reviews # 0 THEN {"review_count"} ELSE {})
    \cup (IF args.search # <<>> THEN {"name"} ELSE {})
    \cup (IF args.price_level # <<>> THEN {"price_numeric"} ELSE {})
    \cup (IF args.sort_by = "residual" THEN {"residual"} ELSE {})
    \cup (CASE args.guide = "michelin" -> {"michelin_stars"}
            [] args.guide = "bib" -> {"bib_gourmand"}
            [] args.guide = "gaultmillau" -> {"gault_millau"}
            [] args.guide = "reddit" -> {"reddit_mentions"}
            [] args.guide = "afsca" -> {"has_afsca_smiley"}
            [] args.guide = "any_guide" -> {"michelin_stars"}
            [] OTHER -> {})

\* api_restaurants: the filters before the top-100 cut.
FirstFilters(df, args, row) ==
    /\ args.min_rating # 0 => row.rating >= args.min_rating
    /\ args.max_rating # 0 => row.rating <= args.max_rating
    /\ args.cuisine \notin {None, "", "all"} => row.cuisine = args.cuisine
    /\ args.min_reviews # 0 => row.review_count >= args.min_reviews
    /\ args.commune \notin {None, "", "all"} /\ "commune" \in df.columns
          => row.commune = args.commune
    /\ args.tier \notin {None, "", "all"} /\ "tier" \in df.columns => row.tier = args.tier
    /\ args.venue_type \notin {None, "", "all"} /\ "venue_type" \in df.columns
          => row.venue_type = args.venue_type
    /\ args.diaspora_only => row.cuisine \in diaspora_cuisines

\* api_restaurants: the guide filter.
GuideFilter(guide, row) ==
    CASE guide = "michelin" -> row.michelin_stars > 0
      [] guide = "bib" -> row.bib_gourmand
      [] guide = "gaultmillau" -> row.gault_millau
      [] guide = "reddit" -> row.reddit_mentions >= 2
      [] guide = "afsca" -> row.has_afsca_smiley
      [] guide = "any_guide" -> row.michelin_stars > 0 \/ row.bib_gourmand \/ row.gault_millau
      [] OTHER -> TRUE

\* api_restaurants: the filters after the top-100 cut.  The search is a
\* substring of the lowercased name (the searches of the model are letters).
LastFilters(df, args, row) ==
    /\ args.search # <<>> => Contains(Lower(row.name), args.search)
    /\ args.price_level # <<>> => row.price_numeric = args.price_level[1]
    /\ GuideFilter(args.guide, row)
    /\ args.open_day \notin {None, ""} /\ "opening_hours" \in df.columns
          => is_open_on_day(row.opening_hours, args.open_day)

\* api_restaurants(): the response for what load_data returned.
api_restaurants(loaded, args) ==
    IF ~loaded.loaded THEN ErrorResponse(404, "No data available. Run the scraper first.")
    ELSE IF ~(ColumnsRead(args) \subseteq loaded.data.columns) THEN UnhandledError("KeyError")
    ELSE Let(loaded.data, LAMBDA df :
         Let({k \in 1..Len(df.rows) : FirstFilters(df, args, df.rows[k])}, LAMBDA first :
         Let(args.brussels_gems /\ "brussels_score" \in df.columns, LAMBDA gems :
         Let(IF gems THEN nlargest(df, first, 100, "brussels_score") ELSE first, LAMBDA top :
         Let({k \in top : LastFilters(df, args, df.rows[k])}, LAMBDA keep :
             IF args.sort_by = "brussels_score" /\ "brussels_score" \in df.columns
             THEN RecordsResponse(df, keep, Cardinality(keep), "brussels_score", "any",
                                  RestaurantColumns, TRUE)
             ELSE IF args.sort_by \in {"rating", "residual"}
                  THEN RecordsResponse(df, keep, Cardinality(keep), args.sort_by, "any",
                                  RestaurantColumns, TRUE)
             ELSE IF gems
                  THEN RecordsResponse(df, keep, Cardinality(keep), "brussels_score", "first",
                                  RestaurantColumns, TRUE)
             ELSE RecordsResponse(df, keep, Cardinality(keep), None, "first",
                                  RestaurantColumns, TRUE))))))

\* The top rows of a frame by a column, as api_gems and api_brussels_gems
\* return them.
TopResponse(df, keep, n, column, columns) ==
    Let(nlargest(df, keep, n, column), LAMBDA top :
        RecordsResponse(df, top, Cardinality(top), column, "first", columns, FALSE))

\* api_gems(): the top rows by residual.
api_gems(loaded, args) ==
    IF ~loaded.loaded THEN ErrorResponse(404, "No data available.")
    ELSE IF ~({"residual", "predicted_rating", "google_maps_url"} \subseteq loaded.data.columns)
         THEN UnhandledError("KeyError")
    ELSE TopResponse(loaded.data, 1..Len(loaded.data.rows), CappedLimit(args), "residual",
                     GemsColumns)

\* The rows of a commune, or all rows.
InCommune(df, commune) ==
    IF commune \in {None, "", "all"} THEN 1..Len(df.rows)
    ELSE {k \in 1..Len(df.rows) : df.rows[k].commune = commune}

\* api_brussels_gems(): the top rows by composite score, of one commune or all.
api_brussels_gems(loaded, args) ==
    IF ~loaded.loaded THEN ErrorResponse(404, "No data available.")
    ELSE IF "brussels_score" \notin loaded.data.columns
         THEN ErrorResponse(404,
                  "Brussels reranking not available. Run brussels_reranking.py first.")
    ELSE IF args.commune \notin {None, "", "all"} /\ "commune" \notin loaded.data.columns
         THEN UnhandledError("KeyError")
    ELSE TopResponse(loaded.data, InCommune(loaded.data, args.commune), CappedLimit(args),
                     "brussels_score", BrusselsGemsColumns)

\* api_diaspora(): the first 50 diaspora rows by composite score, or by rating
\* when the frame has no composite score.
api_diaspora(loaded) ==
    IF ~loaded.loaded THEN ErrorResponse(404, "No data available.")
    ELSE Let(loaded.data, LAMBDA df :
         Let({k \in 1..Len(df.rows) : df.rows[k].cuisine \in diaspora_cuisines}, LAMBDA keep :
             RecordsResponse(df, keep, Min(50, Cardinality(keep)),
                 IF "brussels_score" \in df.columns THEN "brussels_score" ELSE "rating",
                 "any", DiasporaColumns, FALSE)))

\* The rows of a corpus file: row k of the reranked file, which is in
\* descending order of the composite score.
ApiNames == <<NameTrattoriaRoma, NameWokPalace, NameChezMarie>>

ApiCuisines == <<"Italian", "Congolese", "Belgian", "Turkish">>

ApiCommunes == <<"Ixelles", "Bruxelles">>

CorpusRow(k) ==
    [id |-> k,
     name |-> ApiNames[(k % 3) + 1],
     rating |-> 30 + (k % 21),
     review_count |-> 10 * k,
     cuisine |-> ApiCuisines[(k % 4) + 1],
     venue_type |-> "restaurant",
     price_numeric |-> (k % 4) + 1,
     residual |-> ((7 * k) % 41) - 20,
     opening_hours |-> IF k % 3 = 0 THEN HoursCoupe ELSE IF k % 3 = 1 THEN HoursStandard
                       ELSE HoursNone,
     commune |-> ApiCommunes[(k % 2) + 1],
     brussels_score |-> 6000 - 5 * k,
     tier |-> determine_tier(6000 - 5 * k),
     michelin_stars |-> IF k % 100 = 1 THEN 1 ELSE 0,
     bib_gourmand |-> k % 50 = 2,
     gault_millau |-> k % 25 = 3,
     reddit_mentions |-> k % 5,
     has_afsca_smiley |-> k % 2 = 0,
     missing |-> (IF k % 3 = 1 THEN {"neighborhood"} ELSE {})
                 \cup (IF k % 5 = 2 THEN {"address", "google_maps_url"} ELSE {})]

\* Row k of the predictions file: the columns the reranker has not added yet.
PredictionRow(k) ==
    [column \in DOMAIN CorpusRow(k) \ RerankerColumns |-> CorpusRow(k)[column]]

\* The sizes of the corpus files served: a handful of rows, and one row more
\* than the ceiling of the limit.
SmallCorpus == 3

LargeCorpus == 501

CorpusSizes == {SmallCorpus, LargeCorpus}

\* A request without parameters.
NoArgs ==
    [min_rating |-> 0, max_rating |-> 0, cuisine |-> None, min_reviews |-> 0,
     brussels_gems |-> FALSE, search |-> <<>>, price_level |-> <<>>, commune |-> None,
     tier |-> None, venue_type |-> None, diaspora_only |-> FALSE,
     sort_by |-> "brussels_score", guide |-> None, open_day |-> None, limit |-> <<>>]

\* The limits requested: absent, zero, negative, small, the ceiling, above it.
LimitPool == {<<>>, <<0>>, <<-5>>, <<2>>, <<500>>, <<501>>, <<100000>>}

\* The parameters of the requests to /api/restaurants: every guide filter,
\* the sort orders with the top-100 flag and a limit, and every other filter
\* alone.
RestaurantQueries ==
    {[NoArgs EXCEPT !.guide = guide] :
        guide \in {"michelin", "bib", "gaultmillau", "reddit", "afsca", "any_guide"}}
    \cup {[NoArgs EXCEPT !.sort_by = sort_by, !.brussels_gems = brussels_gems,
                         !.limit = limit] :
            sort_by \in {"brussels_score", "rating", "residual", "name"},
            brussels_gems \in BOOLEAN, limit \in {<<>>, <<10>>}}
    \cup {[NoArgs EXCEPT !.min_rating = 45], [NoArgs EXCEPT !.max_rating = 35],
          [NoArgs EXCEPT !.cuisine = "Italian"], [NoArgs EXCEPT !.cuisine = "all"],
          [NoArgs EXCEPT !.min_reviews = 1000],
          [NoArgs EXCEPT !.search = <<"r", "o", "m", "a">>],
          [NoArgs EXCEPT !.price_level = <<2>>], [NoArgs EXCEPT !.price_level = <<0>>],
          [NoArgs EXCEPT !.commune = "Ixelles"], [NoArgs EXCEPT !.tier = "Chef's Kiss"],
          [NoArgs EXCEPT !.venue_type = "restaurant"], [NoArgs EXCEPT !.diaspora_only = TRUE],
          [NoArgs EXCEPT !.open_day = "Monday"], [NoArgs EXCEPT !.open_day = "Funday"],
          [NoArgs EXCEPT !.cuisine = "Congolese", !.min_rating = 40, !.commune = "Ixelles",
                         !.open_day = "Sunday", !.sort_by = "rating"]}

\* The parameters of the requests to /api/gems and /api/brussels_gems.
GemsQueries ==
    {[NoArgs EXCEPT !.limit = limit, !.commune = commune] :
        limit \in LimitPool, commune \in {None, "all", "Ixelles"}}

\* The values of guide and sort_by that api_restaurants tests for.
GuideValues == {"michelin", "bib", "gaultmillau", "reddit", "afsca", "any_guide"}

SortValues == {"brussels_score", "rating", "residual"}

\* The parameters whose value request.args.get converts with type=int or
\* type=float.
ConvertedArgs == {"min_rating", "max_rating", "min_reviews", "price_level", "limit"}

\* The requests to /api/restaurants with a value that is not valid: a number
\* that is not one (the record holds the value a valid request would have had,
\* and names the parameter as malformed), a guide and a sort order outside the
\* values of the code.
InvalidQueries ==
    {[args |-> [NoArgs EXCEPT !.min_rating = 45], malformed |-> {"min_rating"}],
     [args |-> [NoArgs EXCEPT !.max_rating = 35], malformed |-> {"max_rating"}],
     [args |-> [NoArgs EXCEPT !.min_reviews = 1000], malformed |-> {"min_reviews"}],
     [args |-> [NoArgs EXCEPT !.price_level = <<2>>], malformed |-> {"price_level"}],
     [args |-> [NoArgs EXCEPT !.min_rating = 45, !.price_level = <<2>>],
      malformed |-> {"min_rating", "price_level"}],
     [args |-> [NoArgs EXCEPT !.guide = "zagat"], malformed |-> {}],
     [args |-> [NoArgs EXCEPT !.sort_by = "price"], malformed |-> {}],
     [args |-> [NoArgs EXCEPT !.guide = "michelin", !.min_reviews = 1000],
      malformed |-> {"min_reviews"}]}

\* The requests of the model.
RequestPool ==
    {[endpoint |-> "/api/restaurants", args |-> args, malformed |-> {}] :
        args \in RestaurantQueries}
    \cup {[endpoint |-> "/api/restaurants", args |-> q.args, malformed |-> q.malformed] :
            q \in InvalidQueries}
    \cup {[endpoint |-> endpoint, args |-> args, malformed |-> {}] :
            endpoint \in {"/api/gems", "/api/brussels_gems"}, args \in GemsQueries}
    \cup {[endpoint |-> "/api/gems", args |-> [NoArgs EXCEPT !.limit = <<2>>],
           malformed |-> {"limit"}]}
    \cup {[endpoint |-> "/api/diaspora", args |-> NoArgs, malformed |-> {}]}

\* The web application starts on a data directory that holds no corpus file,
\* a predictions file, or a predictions file and a reranked file.
InitApi ==
    /\ reddit_file = RedditFileA
    /\ afsca_file = AfscaFileA
    /\ reddit_mentions_cache = CacheNone
    /\ afsca_cache = CacheNone
    /\ first_call = <<>>
    /\ last_call = <<>>
    /\ places = <<>>
    /\ \/ NoPipeline
       \/ \E n \in CorpusSizes :
             /\ predictions = [k \in 1..n |-> PredictionRow(k)]
             /\ \/ stage = "predicted" /\ reranked = <<>>
                \/ stage = "reranked" /\ reranked = [k \in 1..n |-> CorpusRow(k)]
    /\ NoOther

\* A request arrives at the idle application.
Receive ==
    /\ request = <<>>
    /\ response = <<>>
    /\ \E r \in RequestPool : request' = <<r>>
    /\ UNCHANGED <<unit_call, cached_data, response>> /\ UNCHANGED concurrent_vars
    /\ UNCHANGED scoring_vars
    /\ UNCHANGED pipeline_vars

\* What load_data returns to the view function that answers the request.
Loaded == load_data(cached_data, stage, reranked, predictions)

\* request.args of the request in flight, as request.args.get returns them: a
\* value that type=int or type=float cannot convert is the default of the
\* parameter.
RequestArgs ==
    [name \in DOMAIN request[1].args |->
        IF name \in request[1].malformed THEN NoArgs[name] ELSE request[1].args[name]]

\* The request in flight is for the endpoint.
Answering(endpoint) == request # <<>> /\ request[1].endpoint = endpoint

\* The view function has loaded the data, which caches the frame, and returns
\* the body.
Respond(body) ==
    /\ cached_data' = Loaded
    /\ response' = <<[request |-> request[1], body |-> body]>>
    /\ request' = <<>>
    /\ UNCHANGED unit_call /\ UNCHANGED concurrent_vars
    /\ UNCHANGED scoring_vars
    /\ UNCHANGED pipeline_vars

ApiRestaurants ==
    Answering("/api/restaurants") /\ Respond(api_restaurants(Loaded, RequestArgs))

ApiGems == Answering("/api/gems") /\ Respond(api_gems(Loaded, RequestArgs))

ApiBrusselsGems ==
    Answering("/api/brussels_gems") /\ Respond(api_brussels_gems(Loaded, RequestArgs))

ApiDiaspora == Answering("/api/diaspora") /\ Respond(api_diaspora(Loaded))

\* The response has been sent to the client.
Send ==
    /\ response # <<>>
    /\ response' = <<>>
    /\ UNCHANGED <<unit_call, cached_data, request>> /\ UNCHANGED concurrent_vars
    /\ UNCHANGED scoring_vars
    /\ UNCHANGED pipeline_vars

NextApi == Receive \/ ApiRestaurants \/ ApiGems \/ ApiBrusselsGems \/ ApiDiaspora \/ Send

SpecApi == InitApi /\ [][NextApi]_vars

----------------------------------------------------------------------------
(* THE QUERY SURFACE UNDER CONCURRENT REQUESTS: app.run serves each request
   in a thread of its own *)

\* The request threads of the model.
NumThreads == 2

Threads == 1..NumThreads

\* A thread that serves no request: df is what load_data returned to it.
IdleThread == [pc |-> "idle", request |-> <<>>, df |-> CacheNone, response |-> <<>>]

\* The requests of the threaded model.
ServeRequests ==
    {[endpoint |-> "/api/restaurants", args |-> [NoArgs EXCEPT !.sort_by = "rating"],
      malformed |-> {}],
     [endpoint |-> "/api/restaurants", args |-> [NoArgs EXCEPT !.cuisine = "Congolese"],
      malformed |-> {}],
     [endpoint |-> "/api/gems", args |-> [NoArgs EXCEPT !.limit = <<2>>], malformed |-> {}],
     [endpoint |-> "/api/brussels_gems", args |-> NoArgs, malformed |-> {}],
     [endpoint |-> "/api/diaspora", args |-> NoArgs, malformed |-> {}]}

\* The threaded application starts on a data directory of a small corpus.
InitServe ==
    /\ reddit_file = RedditFileA
    /\ afsca_file = AfscaFileA
    /\ reddit_mentions_cache = CacheNone
    /\ afsca_cache = CacheNone
    /\ first_call = <<>>
    /\ last_call = <<>>
    /\ places = <<>>
    /\ \/ NoPipeline
       \/ /\ predictions = [k \in 1..SmallCorpus |-> PredictionRow(k)]
          /\ \/ stage = "predicted" /\ reranked = <<>>
             \/ stage = "reranked" /\ reranked = [k \in 1..SmallCorpus |-> CorpusRow(k)]
    /\ unit_call = <<>> /\ cached_data = CacheNone /\ request = <<>> /\ response = <<>>
    /\ thread = [t \in Threads |-> IdleThread]
    /\ scraper = NoScraper
    /\ worker = NoWorkers

\* What the steps of a request thread leave alone.
ServeFrame ==
    /\ UNCHANGED <<unit_call, request, response, scraper, worker>>
    /\ UNCHANGED scoring_vars
    /\ UNCHANGED pipeline_vars

\* A request arrives and is given a thread, which calls load_data.
Accept(t) ==
    /\ thread[t].pc = "idle"
    /\ \E r \in ServeRequests :
          thread' = [thread EXCEPT ![t] = [IdleThread EXCEPT !.pc = "load_data",
                                                             !.request = <<r>>]]
    /\ UNCHANGED cached_data
    /\ ServeFrame

\* load_data, "if _cached_data is not None: return _cached_data.copy()".
CheckCache(t) ==
    /\ thread[t].pc = "load_data"
    /\ thread' = [thread EXCEPT ![t] =
                    IF cached_data.loaded
                    THEN [@ EXCEPT !.pc = "view", !.df = cached_data]
                    ELSE [@ EXCEPT !.pc = "read_reranked"]]
    /\ UNCHANGED cached_data
    /\ ServeFrame

\* load_data, the first read_csv: the reranked file is cached and a copy
\* returned; FileNotFoundError leads to the second read.
ReadReranked(t) ==
    /\ thread[t].pc = "read_reranked"
    /\ IF stage = "reranked"
       THEN \E loaded \in {load_data(CacheNone, "reranked", reranked, predictions)} :
               /\ cached_data' = loaded
               /\ thread' = [thread EXCEPT ![t] = [@ EXCEPT !.pc = "view", !.df = loaded]]
       ELSE /\ thread' = [thread EXCEPT ![t] = [@ EXCEPT !.pc = "read_predictions"]]
            /\ UNCHANGED cached_data
    /\ ServeFrame

\* load_data, the second read_csv: the predictions file is cached and a copy
\* returned; FileNotFoundError returns None.
ReadPredictions(t) ==
    /\ thread[t].pc = "read_predictions"
    /\ IF stage \in {"predicted", "reranked"}
       THEN \E loaded \in {load_data(CacheNone, "predicted", reranked, predictions)} :
               /\ cached_data' = loaded
               /\ thread' = [thread EXCEPT ![t] = [@ EXCEPT !.pc = "view", !.df = loaded]]
       ELSE /\ thread' = [thread EXCEPT ![t] = [@ EXCEPT !.pc = "view", !.df = CacheNone]]
            /\ UNCHANGED cached_data
    /\ ServeFrame

\* The view function of the endpoint on the frame load_data returned.
view_function(r, loaded) ==
    CASE r.endpoint = "/api/restaurants" -> api_restaurants(loaded, r.args)
      [] r.endpoint = "/api/gems" -> api_gems(loaded, r.args)
      [] r.endpoint = "/api/brussels_gems" -> api_brussels_gems(loaded, r.args)
      [] r.endpoint = "/api/diaspora" -> api_diaspora(loaded)

\* The rest of the view function: it filters, sorts and selects on its copy
\* of the frame and returns the response.
View(t) ==
    /\ thread[t].pc = "view"
    /\ thread' = [thread EXCEPT ![t] =
                    [@ EXCEPT !.pc = "idle",
                              !.response = <<view_function(thread[t].request[1],
                                                            thread[t].df)>>]]
    /\ UNCHANGED cached_data
    /\ ServeFrame

\* Out of band, brussels_reranking.py writes the reranked file beside the
\* predictions file.
WriteReranked ==
    /\ stage = "predicted"
    /\ stage' = "reranked"
    /\ reranked' = [k \in 1..Len(predictions) |-> CorpusRow(k)]
    /\ UNCHANGED <<places, predictions>>
    /\ UNCHANGED scoring_vars
    /\ UNCHANGED other_vars

NextServe ==
    \/ \E t \in Threads :
          Accept(t) \/ CheckCache(t) \/ ReadReranked(t) \/ ReadPredictions(t) \/ View(t)
    \/ WriteReranked

SpecServe == InitServe /\ [][NextServe]_vars

----------------------------------------------------------------------------
(* THE PARALLEL REVIEW SCRAPER: scrape_gmaps_reviews_parallel.py *)

\* Worker settings and retry settings.
NUM_WORKERS == 2

MAX_RETRIES == 2

RETRY_DELAY_BASE == 5

\* The worker ids: range(args.workers).
Workers == 0..(NUM_WORKERS - 1)

\* A Python dict as a function: d[key] = value, del d[key], the empty dict.
EmptyDict == <<>>

DictSet(d, key, value) ==
    [k \in DOMAIN d \cup {key} |-> IF k = key THEN value ELSE d[k]]

DictDel(d, key) == [k \in DOMAIN d \ {key} |-> d[k]]

\* load_restaurants_from_json: the fields of a place the scraper keeps; the
\* id is not among them.
load_restaurants_from_json(file) ==
    [k \in 1..Len(file) |-> [name |-> file[k].name, address |-> file[k].address]]

\* The state a fresh run starts with, and load_scrape_state of a missing file.
FreshState(completed) == [completed |-> completed, in_progress |-> EmptyDict, failed |-> EmptyDict]

\* load_scrape_state: the saved state, or a fresh one when the file is missing.
load_scrape_state(state_file) ==
    IF state_file = <<>> THEN FreshState({}) ELSE state_file[1]

\* load_existing_results: the results and the names of those with reviews and
\* no error.
CompletedResults(results) ==
    {results[k].name : k \in {j \in 1..Len(results) : results[j].reviews /\ ~results[j].error}}

\* mark_in_progress, before it saves: state["in_progress"][name] = {...}.
mark_in_progress(state, name, worker_id) ==
    [state EXCEPT !.in_progress = DictSet(@, name, worker_id)]

\* mark_completed, before it saves.
mark_completed(state, name) ==
    [state EXCEPT !.in_progress = DictDel(@, name),
                  !.failed = DictDel(@, name),
                  !.completed = @ \cup {name}]

\* mark_failed, before it saves: the attempts of the name are counted.
mark_failed(state, name) ==
    [state EXCEPT !.in_progress = DictDel(@, name),
                  !.failed = DictSet(@, name, IF name \in DOMAIN @ THEN @[name] + 1 ELSE 1)]

\* thread_safe_save_result, inside its lock: the entry of the same name is
\* replaced when existing_names holds the name of the result, else the result
\* is appended.
UpdateEntry(results_cache, result) ==
    Let(CHOOSE i \in 1..Len(results_cache) :
            /\ results_cache[i].name = result.name
            /\ \A j \in 1..(i - 1) : results_cache[j].name # result.name,
        LAMBDA i : [results_cache EXCEPT ![i] = result])

SaveEntry(results_cache, result, existing) ==
    IF ~existing THEN Append(results_cache, result)
    ELSE IF \E i \in 1..Len(results_cache) : results_cache[i].name = result.name
         THEN UpdateEntry(results_cache, result)
    ELSE results_cache

ExistingNames(results_cache) == {results_cache[k].name : k \in 1..Len(results_cache)}

\* create_work_queue before the shuffle: the restaurants (by their position in
\* the list) that are not completed and, unless failed ones are retried, not
\* failed.
to_scrape(restaurants, completed, failed, retry_failed) ==
    {k \in 1..Len(restaurants) :
        /\ restaurants[k].name \notin completed
        /\ restaurants[k].name \in DOMAIN failed => retry_failed}

\* random.shuffle: the orders of a set of positions.
Shuffles(positions) ==
    {order \in [1..Cardinality(positions) -> positions] :
        \A i, j \in 1..Cardinality(positions) : order[i] = order[j] => i = j}

\* scrape_restaurant_direct: the results it returns: reviews and no error, no
\* reviews and no error, an error.  Every exception of the navigation and the
\* extraction is caught inside it and returned as the error of the result
\* (reviews extracted before the exception stay in the result, which is an
\* error like the others to every test of the scraper).
DirectResults ==
    {[reviews |-> TRUE, error |-> FALSE], [reviews |-> FALSE, error |-> FALSE],
     [reviews |-> FALSE, error |-> TRUE]}

\* The browser exceptions that leave scrape_restaurant_direct: none, its
\* try block catches Exception.
DirectRaises == {}

\* The result after the last retry: "Browser error after 2 retries".
BrowserErrorResult == [reviews |-> FALSE, error |-> TRUE]

\* result.get("reviews") and len(result["reviews"]) > 0 and not result.get("error").
Succeeded(result) == result.reviews /\ ~result.error

\* {r["id"]: r for r in rows} added to a dict, as the list of its values: a
\* row of a new id is appended, a row of a known id replaces the value.
RECURSIVE DictById(_, _)
DictById(all, rows) ==
    IF rows = <<>> THEN all
    ELSE IF \E k \in 1..Len(all) : all[k].id = Head(rows).id
         THEN DictById([k \in 1..Len(all) |->
                          IF all[k].id = Head(rows).id THEN Head(rows) ELSE all[k]],
                       Tail(rows))
    ELSE DictById(Append(all, Head(rows)), Tail(rows))

\* merge_with_existing: the existing places by id, then the new places whose
\* id is not among them.
RECURSIVE AddNew(_, _)
AddNew(all, new_data) ==
    IF new_data = <<>> THEN all
    ELSE IF \E k \in 1..Len(all) : all[k].id = Head(new_data).id
         THEN AddNew(all, Tail(new_data))
    ELSE AddNew(Append(all, Head(new_data)), Tail(new_data))

merge_with_existing(existing, new_data) == AddNew(DictById(<<>>, existing), new_data)

\* The input file of the model: two restaurants and a second branch of the
\* first, which has the same name.
PlaceById(id) == CHOOSE place \in PlacePool : place.id = id

InputFile == <<PlaceById("p1"), PlaceById("p4"), PlaceById("p11")>>

\* What an earlier run of the scraper left behind: nothing; a run that was
\* killed while worker 0 scraped "Quick", after "Trattoria Roma" had failed; a
\* run that completed "Quick".
NoEarlierRun == [state_file |-> <<>>, output_file |-> <<>>]

KilledRun ==
    [state_file |-> <<[completed |-> {},
                       in_progress |-> DictSet(EmptyDict, NameQuick, 0),
                       failed |-> DictSet(EmptyDict, NameTrattoriaRoma, 1)]>>,
     output_file |-> <<[name |-> NameTrattoriaRoma, reviews |-> FALSE, error |-> TRUE]>>]

CompletedRun ==
    [state_file |-> <<[completed |-> {NameQuick}, in_progress |-> EmptyDict,
                       failed |-> EmptyDict]>>,
     output_file |-> <<[name |-> NameQuick, reviews |-> TRUE, error |-> FALSE]>>]

\* The runs of the model: a fresh run on an empty data directory, --resume and
\* --resume --retry-failed after the killed run, a fresh run and --resume after
\* the completed run.
RunPool ==
    {[resume |-> FALSE, retry_failed |-> FALSE, earlier |-> NoEarlierRun],
     [resume |-> TRUE, retry_failed |-> FALSE, earlier |-> KilledRun],
     [resume |-> TRUE, retry_failed |-> TRUE, earlier |-> KilledRun],
     [resume |-> FALSE, retry_failed |-> FALSE, earlier |-> CompletedRun],
     [resume |-> TRUE, retry_failed |-> FALSE, earlier |-> CompletedRun]}

\* A worker that has not taken a restaurant.
IdleWorker ==
    [pc |-> "loop", restaurant |-> 0, attempt |-> 0, slept |-> <<>>, result |-> <<>>,
     copy |-> <<>>, existing |-> FALSE, then |-> "loop"]

\* main, up to the queue: the state of the run, reconciled with the results
\* when it resumes.
StartState(args, earlier) ==
    IF args.resume
    THEN [load_scrape_state(earlier.state_file) EXCEPT
            !.completed = @ \cup CompletedResults(earlier.output_file),
            !.in_progress = EmptyDict]
    ELSE FreshState(CompletedResults(earlier.output_file))

\* main, the queue: create_work_queue in one of the orders of its shuffle.
Queues(args, earlier) ==
    Shuffles(to_scrape(load_restaurants_from_json(InputFile),
                       StartState(args, earlier).completed,
                       StartState(args, earlier).failed, args.retry_failed))

\* main, up to the start of the workers.
main(args, earlier, work_queue) ==
    [restaurants |-> load_restaurants_from_json(InputFile),
     state |-> StartState(args, earlier),
     state_file |-> earlier.state_file,
     results_cache |-> earlier.output_file,
     output_file |-> earlier.output_file,
     work_queue |-> work_queue,
     state_lock |-> <<>>,
     results_lock |-> <<>>,
     stop_event |-> FALSE,
     progress_counter |-> 0]

\* The parallel scraper after main has started its workers; with nothing to
\* scrape main returns and no worker runs.
InitScraper ==
    /\ reddit_file = RedditFileA
    /\ afsca_file = AfscaFileA
    /\ reddit_mentions_cache = CacheNone
    /\ afsca_cache = CacheNone
    /\ first_call = <<>>
    /\ last_call = <<>>
    /\ places = InputFile /\ predictions = <<>> /\ reranked = <<>> /\ stage = "scraped"
    /\ unit_call = <<>> /\ cached_data = CacheNone /\ request = <<>> /\ response = <<>>
    /\ thread = NoThreads
    /\ \E args \in RunPool :
          \E work_queue \in Queues(args, args.earlier) :
             /\ scraper = main(args, args.earlier, work_queue)
             /\ worker = [w \in Workers |->
                            IF work_queue = <<>> THEN [IdleWorker EXCEPT !.pc = "stopped"]
                            ELSE IdleWorker]

\* What the steps of the scraper leave alone.
ScraperFrame ==
    /\ UNCHANGED <<unit_call, cached_data, request, response, thread>>
    /\ UNCHANGED scoring_vars
    /\ UNCHANGED pipeline_vars

\* The name of the restaurant a worker has taken.
NameOf(w) == scraper.restaurants[worker[w].restaurant].name

\* A lock that every worker finds free.
AlwaysFree(lock) == TRUE

\* A lock that no worker holds.
Free(lock) == lock = <<>>

\* A worker that reads the head of the queue and leaves it there.
GetWorkWithoutRemoving(w) ==
    /\ worker[w].pc = "loop"
    /\ IF scraper.stop_event \/ scraper.work_queue = <<>>
       THEN worker' = [worker EXCEPT ![w] = [IdleWorker EXCEPT !.pc = "stopped"]]
       ELSE worker' = [worker EXCEPT ![w] =
                         [IdleWorker EXCEPT !.pc = "mark_in_progress",
                                            !.restaurant = Head(scraper.work_queue)]]
    /\ UNCHANGED scraper
    /\ ScraperFrame

\* worker_scrape, the head of its loop: it stops when stop_event is set or the
\* queue is empty, else it takes the next restaurant off the queue.
GetWork(w) ==
    /\ worker[w].pc = "loop"
    /\ IF scraper.stop_event \/ scraper.work_queue = <<>>
       THEN /\ worker' = [worker EXCEPT ![w] = [IdleWorker EXCEPT !.pc = "stopped"]]
            /\ UNCHANGED scraper
       ELSE /\ worker' = [worker EXCEPT ![w] =
                            [IdleWorker EXCEPT !.pc = "mark_in_progress",
                                               !.restaurant = Head(scraper.work_queue)]]
            /\ scraper' = [scraper EXCEPT !.work_queue = Tail(@)]
    /\ ScraperFrame

\* mark_in_progress: the entry is written, then the state is saved.
MarkInProgress(w) ==
    /\ worker[w].pc = "mark_in_progress"
    /\ scraper' = [scraper EXCEPT !.state = mark_in_progress(@, NameOf(w), w)]
    /\ worker' = [worker EXCEPT ![w] = [@ EXCEPT !.pc = "save", !.then = "scrape"]]
    /\ ScraperFrame

\* save_scrape_state, "with lock: state_copy = state.copy()": a shallow copy,
\* of which only the completed names are copied into a list of their own.
SaveCopy(w) ==
    /\ worker[w].pc = "save"
    /\ Free(scraper.state_lock)
    /\ scraper' = [scraper EXCEPT !.state_lock = <<w>>]
    /\ worker' = [worker EXCEPT ![w] = [@ EXCEPT !.pc = "dump", !.copy = <<scraper.state>>]]
    /\ ScraperFrame

\* save_scrape_state, json.dump and rename: the completed names of the copy
\* and the in_progress and failed dicts as they are now are written.  When a
\* dict has changed since the copy, json.dump either writes it as it is now or,
\* when the change falls into its iteration of the dict, raises RuntimeError
\* (dictionary changed size during iteration), which leaves the lock and ends
\* this turn of the worker's loop at "except Exception: continue".
SaveDump(w) ==
    /\ worker[w].pc = "dump"
    /\ \/ /\ scraper' = [scraper EXCEPT
                           !.state_lock = <<>>,
                           !.state_file = <<[completed |-> worker[w].copy[1].completed,
                                             in_progress |-> scraper.state.in_progress,
                                             failed |-> scraper.state.failed]>>]
          /\ worker' = [worker EXCEPT ![w] = [@ EXCEPT !.pc = worker[w].then, !.copy = <<>>]]
       \/ /\ \/ DOMAIN scraper.state.in_progress # DOMAIN worker[w].copy[1].in_progress
             \/ DOMAIN scraper.state.failed # DOMAIN worker[w].copy[1].failed
          /\ scraper' = [scraper EXCEPT !.state_lock = <<>>]
          /\ worker' = [worker EXCEPT ![w] = IdleWorker]
    /\ ScraperFrame

\* The retry loop around scrape_restaurant_direct: a result ends it; a browser
\* exception restarts the driver and, while attempts remain, sleeps
\* RETRY_DELAY_BASE * 2 ** attempt before the next attempt, else ends it with
\* the browser-error result.
ScrapeRestaurant(w) ==
    /\ worker[w].pc = "scrape"
    /\ \/ \E result \in DirectResults :
             worker' = [worker EXCEPT ![w] =
                          [@ EXCEPT !.pc = "save_result",
                                    !.result = <<[name |-> NameOf(w), reviews |-> result.reviews,
                                                  error |-> result.error]>>]]
       \/ \E exception \in DirectRaises :
             worker' = [worker EXCEPT ![w] =
                          IF @.attempt < MAX_RETRIES
                          THEN [@ EXCEPT !.attempt = @ + 1,
                                         !.slept = Append(@, RETRY_DELAY_BASE * (2 ^ worker[w].attempt))]
                          ELSE [@ EXCEPT !.pc = "save_result",
                                         !.result = <<[name |-> NameOf(w),
                                                       reviews |-> BrowserErrorResult.reviews,
                                                       error |-> BrowserErrorResult.error]>>]]
    /\ UNCHANGED scraper
    /\ ScraperFrame

\* thread_safe_save_result, "with lock: existing_names = ...; if
\* result["name"] in existing_names".
SaveResultCheck(w) ==
    /\ worker[w].pc = "save_result"
    /\ Free(scraper.results_lock)
    /\ scraper' = [scraper EXCEPT !.results_lock = <<w>>]
    /\ worker' = [worker EXCEPT ![w] =
                    [@ EXCEPT !.pc = "write_result",
                              !.existing = worker[w].result[1].name \in
                                             ExistingNames(scraper.results_cache)]]
    /\ ScraperFrame

\* thread_safe_save_result, the update or append, and atomic_json_write.
SaveResultWrite(w) ==
    /\ worker[w].pc = "write_result"
    /\ \E cache \in {SaveEntry(scraper.results_cache, worker[w].result[1], worker[w].existing)} :
          scraper' = [scraper EXCEPT !.results_cache = cache, !.output_file = cache,
                                     !.results_lock = <<>>]
    /\ worker' = [worker EXCEPT ![w] = [@ EXCEPT !.pc = "mark_done"]]
    /\ ScraperFrame

\* mark_completed or mark_failed: the entries are written, then the state is
\* saved.
MarkDone(w) ==
    /\ worker[w].pc = "mark_done"
    /\ scraper' = [scraper EXCEPT !.state =
                     IF Succeeded(worker[w].result[1]) THEN mark_completed(@, NameOf(w))
                     ELSE mark_failed(@, NameOf(w))]
    /\ worker' = [worker EXCEPT ![w] = [@ EXCEPT !.pc = "save", !.then = "progress"]]
    /\ ScraperFrame

\* "with state_lock: progress_counter[0] += 1", task_done, and the delay before
\* the next turn of the loop.
Progress(w) ==
    /\ worker[w].pc = "progress"
    /\ Free(scraper.state_lock)
    /\ scraper' = [scraper EXCEPT !.progress_counter = @ + 1]
    /\ worker' = [worker EXCEPT ![w] = IdleWorker]
    /\ ScraperFrame

\* signal_handler: Ctrl+C sets stop_event.
SignalHandler ==
    /\ scraper # NoScraper
    /\ ~scraper.stop_event
    /\ scraper' = [scraper EXCEPT !.stop_event = TRUE]
    /\ UNCHANGED worker
    /\ ScraperFrame

NextScraper ==
    \/ \E w \in Workers :
          \/ GetWork(w) \/ MarkInProgress(w) \/ SaveCopy(w) \/ SaveDump(w)
          \/ ScrapeRestaurant(w)
          \/ SaveResultCheck(w) \/ SaveResultWrite(w) \/ MarkDone(w) \/ Progress(w)
    \/ SignalHandler

SpecScraper == InitScraper /\ [][NextScraper]_vars

----------------------------------------------------------------------------
(* THE RAW-RECORD STORES: the results file of the review scraper and the
   places file of scraper.py and scrape_communes.py, written on their own *)

\* The results the two workers are about to save, and the results file they
\* find.
StoreResults ==
    {[name |-> name, reviews |-> result.reviews, error |-> result.error] :
        name \in {NameTrattoriaRoma, NameQuick},
        result \in {[reviews |-> TRUE, error |-> FALSE], [reviews |-> FALSE, error |-> TRUE]}}

\* data/communes_restaurants.json: missing, or the places of a commune scrape.
CommunesFiles ==
    {<<>>, <<<<PlaceById("p4")>>>>, <<<<PlaceById("p1"), PlaceById("p11")>>>>,
     <<<<PlaceById("p11"), PlaceById("p4"), PlaceById("p11")>>>>}

InitStore ==
    /\ reddit_file = RedditFileA
    /\ afsca_file = AfscaFileA
    /\ reddit_mentions_cache = CacheNone
    /\ afsca_cache = CacheNone
    /\ first_call = <<>>
    /\ last_call = <<>>
    /\ places = <<>> /\ predictions = <<>> /\ reranked = <<>> /\ stage = "scraped"
    /\ unit_call = <<>> /\ cached_data = CacheNone /\ request = <<>> /\ response = <<>>
    /\ thread = NoThreads
    /\ \E earlier \in {NoEarlierRun, KilledRun} :
          scraper = main([resume |-> TRUE, retry_failed |-> TRUE], earlier, <<>>)
    /\ \E results \in [Workers -> StoreResults] :
          worker = [w \in Workers |->
                      [IdleWorker EXCEPT !.pc = "save_result", !.result = <<results[w]>>]]

\* scrape_brussels_restaurants, one place of a grid search: it is stored
\* unless its id is stored already.
StorePlace ==
    /\ \E place \in {PlaceById("p1"), PlaceById("p4"), PlaceById("p11")} :
          places' = AddNew(places, <<place>>)
    /\ UNCHANGED <<predictions, reranked, stage>>
    /\ UNCHANGED scoring_vars
    /\ UNCHANGED other_vars

\* merge_with_existing: the merged places are written over the existing file;
\* without a new file nothing is written.
MergeWithExisting ==
    /\ \E new_file \in CommunesFiles :
          IF new_file = <<>> THEN UNCHANGED <<places, unit_call>>
          ELSE /\ places' = merge_with_existing(places, new_file[1])
               /\ unit_call' = <<[new_data |-> new_file[1]]>>
    /\ UNCHANGED <<predictions, reranked, stage>>
    /\ UNCHANGED <<cached_data, request, response>> /\ UNCHANGED concurrent_vars
    /\ UNCHANGED scoring_vars

NextStore ==
    \/ \E w \in Workers : SaveResultCheck(w) \/ SaveResultWrite(w)
    \/ StorePlace
    \/ MergeWithExisting

SpecStore == InitStore /\ [][NextStore]_vars

----------------------------------------------------------------------------
(* THE SCORING ENGINE: PROPERTIES *)

Called == last_call # <<>>
First == first_call[1]
Last == last_call[1]

\* The latest call scored the record of the first call with only its review
\* count changed.
OnlyReviewsDiffer ==
    /\ Called
    /\ Last.cuisine_counts_by_commune = First.cuisine_counts_by_commune
    /\ [Last.restaurant EXCEPT !.review_count = First.restaurant.review_count]
          = First.restaurant

\* C1: every record scored by calculate_brussels_score gets a composite score in
\* the closed interval [0, 1].
C1_BoundedScore ==
    Called => Last.breakdown.brussels_score >= 0 /\ Last.breakdown.brussels_score <= SCALE

\* A record whose components sum below zero was scored, and its score is 0.
C1_Witness ==
    Called /\ Last.breakdown.raw_total < 0 /\ Last.breakdown.brussels_score = 0

\* C5: the positive-component weights of the weight table that a call of the
\* scorer used (base_quality, ml_residual, scarcity, independent, guide, diaspora,
\* reddit, bruxellois, family_name, specificity, cuisine_rarity) sum to exactly 1.0.
C5_WeightNormalization ==
    Called =>
        /\ DOMAIN POSITIVE_WEIGHTS =
              {"base_quality", "ml_residual", "scarcity", "independent", "guide", "diaspora",
               "reddit", "bruxellois", "family_name", "specificity", "cuisine_rarity"}
        /\ PositiveWeightsSum = SCALE

\* A record was scored with the weight table: its base quality is the weight of
\* base_quality times the rating share at full confidence or less.
C5_Witness ==
    /\ Called
    /\ Last.restaurant.rating = 50
    /\ Last.breakdown.components.base_quality > POSITIVE_WEIGHTS.base_quality \div 2
    /\ Last.breakdown.components.base_quality <= POSITIVE_WEIGHTS.base_quality

\* The guide bonus a name is due: the highest applicable of 2-star 0.08, 1-star
\* 0.06, value guide 0.04 and regional guide 0.03.
HighestGuideBonus(b) ==
    IF b.michelin_stars >= 2 THEN 800
    ELSE IF b.michelin_stars = 1 THEN 600
    ELSE IF b.bib_gourmand THEN 400
    ELSE IF b.gault_millau THEN 300
    ELSE 0

\* C6: the guide component of a scored record is the bonus of the highest
\* applicable guide alone; the bonuses of several guides never stack.
C6_NoDoubleGuideBonus ==
    Called =>
        /\ Last.breakdown.components.guide_bonus = HighestGuideBonus(Last.breakdown)
        /\ Last.breakdown.components.guide_bonus \in {0, 300, 400, 600, 800}

\* A record listed by the star guide, the value guide and the regional guide was
\* scored, and got the bonus of its star alone.
C6_Witness ==
    /\ Called
    /\ Last.breakdown.michelin_stars = 1
    /\ Last.breakdown.bib_gourmand
    /\ Last.breakdown.gault_millau
    /\ Last.breakdown.components.guide_bonus = 600

\* The schedule of the record qualifies it as a lark and as an owl.
LarkAndOwl(restaurant) ==
    Let(parse_opening_hours(restaurant.opening_hours), LAMBDA hours_data :
        /\ hours_data.parsed
        /\ hours_data.closes_late
        /\ \/ hours_data.has_service_coupe
           \/ hours_data.total_hours_per_week > 0 /\ hours_data.total_hours_per_week < 30
           \/ hours_data.is_lunch_only
           \/ hours_data.days_open <= 4 /\ hours_data.days_open > 0)

\* C7: the horseshoe type of a scored record is lark, owl or null; a lark gets
\* one of the lark bonuses, an owl the owl bonus, null gets 0, so that a record
\* that is both gets a single bonus; below rating 4.0 the bonus is 0 and the
\* type null.
C7_HorseshoeExclusivity ==
    Called =>
        LET c == Last.breakdown.scarcity_components
        IN  /\ c.horseshoe_type \in {"lark", "owl", None}
            /\ c.horseshoe_type = "lark" => c.horseshoe_bonus \in {6000, 7000, 8000, 10000}
            /\ c.horseshoe_type = "owl" => c.horseshoe_bonus = 8000
            /\ c.horseshoe_type = None => c.horseshoe_bonus = 0
            /\ Last.restaurant.rating < 40 =>
                  c.horseshoe_bonus = 0 /\ c.horseshoe_type = None

\* A record rated 4.0 or more that is both a lark and an owl was scored.
C7_Witness ==
    /\ Called
    /\ Last.restaurant.rating >= 40
    /\ LarkAndOwl(Last.restaurant)
    /\ Last.breakdown.scarcity_components.horseshoe_type \in {"lark", "owl"}

\* C8: a scored record whose raw tourist-trap score is above 0.3 has a diaspora
\* component of 0.
C8_DiasporaGate ==
    Called /\ Last.breakdown.tourist_trap_raw > 3000 =>
        Last.breakdown.components.diaspora_bonus = 0

\* A record of a diaspora cuisine in a district of that diaspora was scored
\* with a raw tourist-trap score above 0.3.
C8_Witness ==
    /\ Called
    /\ Last.breakdown.tourist_trap_raw > 3000
    /\ Last.restaurant.rating >= 35
    /\ Last.restaurant.cuisine \in DOMAIN DIASPORA_AUTHENTICITY
    /\ Last.breakdown.commune \in DOMAIN DIASPORA_AUTHENTICITY[Last.restaurant.cuisine]
    /\ Last.breakdown.components.diaspora_bonus = 0

\* C9: with every other input held fixed, the base_quality and ml_residual
\* components at a larger review count are not smaller.
C9_ConfidenceMonotone ==
    OnlyReviewsDiffer /\ Last.restaurant.review_count > First.restaurant.review_count =>
        /\ Last.breakdown.components.base_quality >= First.breakdown.components.base_quality
        /\ Last.breakdown.components.residual_score >=
              First.breakdown.components.residual_score

\* C10: with every other input held fixed, for a review count n in [10, 3000)
\* the composite score at n + 1 is within 0.05 of the composite score at n.
C10_ReviewCliffSmooth ==
    /\ OnlyReviewsDiffer
    /\ Last.restaurant.review_count = First.restaurant.review_count + 1
    /\ First.restaurant.review_count >= 10
    /\ First.restaurant.review_count < 3000
    => Abs(Last.breakdown.brussels_score - First.breakdown.brussels_score) <= 500

----------------------------------------------------------------------------
(* THE PIPELINE: PROPERTIES *)

\* The rerank script has run on the predictions file.
Reranked == stage = "reranked"

\* C3 (monotone chain reclassification): every row of the reranked corpus that
\* feature engineering had flagged as a chain in the predictions file is still
\* flagged as a chain after rerank_restaurants.
C3_MonotoneChainReclassification ==
    Reranked =>
        \A i \in 1..Len(predictions), j \in 1..Len(reranked) :
            predictions[i].id = reranked[j].id /\ predictions[i].is_chain
                => reranked[j].is_chain

----------------------------------------------------------------------------
(* GUIDE LOOKUPS, TIERS AND FALLBACKS: PROPERTIES *)

StrGlacierDeLaPaix == Lower(NameGlacierdelaPaix)

\* The pattern occurs in s between characters that are not alphanumeric (or
\* at an end of s).
AtWordBoundaries(pattern, s) ==
    \E i \in 1..(Len(s) - Len(pattern) + 1) :
        /\ OccursAt(pattern, s, i)
        /\ i = 1 \/ ~IsWordChar(s[i - 1])
        /\ i + Len(pattern) - 1 = Len(s) \/ ~IsWordChar(s[i + Len(pattern)])

\* C11 (pattern-boundary matching): the multi-star lookup gives "la paix" its
\* two stars and "glacier de la paix" none, and a name other than the
\* exact-match entry has stars only when an entry with these stars occurs in it
\* at word boundaries.
C11_PatternBoundaryMatching ==
    Called =>
        LET name_lower == Lower(Last.restaurant.name)
            stars == Last.breakdown.michelin_stars
        IN  /\ name_lower = StrLaPaix => stars = 2
            /\ name_lower = StrGlacierDeLaPaix => stars = 0
            /\ stars > 0 /\ name_lower # StrLaPaix =>
                  \E k \in 1..Len(MICHELIN_STARS) :
                      /\ MICHELIN_STARS[k][2] = stars
                      /\ AtWordBoundaries(MICHELIN_STARS[k][1], name_lower)

\* The tiers from the lowest to the highest.
TierRank(tier) ==
    CASE tier = "Line Cook Shrug" -> 0
      [] tier = "Workable" -> 1
      [] tier = "Kitchen Approved" -> 2
      [] tier = "Chef's Kiss" -> 3

OriginalIndex(id) == CHOOSE k \in 1..Len(predictions) : predictions[k].id = id

\* C13 (output order): the reranked corpus is in descending order of the
\* composite score, and two rows of equal score are in the order of their
\* original index.
C13_StableDescendingOrder ==
    Reranked =>
        \A i \in 1..Len(reranked) : \A j \in (i + 1)..Len(reranked) :
            /\ reranked[i].brussels_score >= reranked[j].brussels_score
            /\ reranked[i].brussels_score = reranked[j].brussels_score =>
                  OriginalIndex(reranked[i].id) < OriginalIndex(reranked[j].id)

\* The record scored has no residual: the column is absent or the value is NaN.
ResidualUnavailable ==
    \/ "residual" \notin DOMAIN Last.restaurant
    \/ Last.restaurant.residual = NaN

\* C14 (baseline predictor unavailable): a record whose residual is absent or
\* NaN is scored with an ml_residual component of exactly 0.
C14_ResidualFallsBackToZero ==
    Called /\ ResidualUnavailable => Last.breakdown.components.residual_score = 0

\* C15 (unparseable hours): opening hours that are absent, not the text of a
\* list, or of an unexpected type such as a list are parsed to the "unknown"
\* summary, and no call of parse_opening_hours raises.
C15_UnparseableHoursUnknown ==
    unit_call # <<>> /\ "opening_hours" \in DOMAIN unit_call[1] =>
        /\ "raised" \notin DOMAIN unit_call[1].result
        /\ unit_call[1].opening_hours.kind # "week" => unit_call[1].result = UnknownHours

\* The penalty is negative or zero and no larger than its cap.
WithinCap(penalty, cap) == cap <= penalty /\ penalty <= 0

\* C16 (penalty caps): the tourist-trap, chain, low-review, expat-bubble,
\* price-quality and non-restaurant penalties of a scored record are each
\* between their cap of PENALTY_CAPS and zero.
C16_PenaltyCaps ==
    Called =>
        LET components == Last.breakdown.components
        IN  /\ WithinCap(components.tourist_penalty, PENALTY_CAPS.tourist_trap)
            /\ WithinCap(components.chain_penalty, PENALTY_CAPS.chain)
            /\ WithinCap(components.low_review_penalty, PENALTY_CAPS.low_review)
            /\ WithinCap(components.eu_penalty, PENALTY_CAPS.eu_bubble)
            /\ WithinCap(components.price_quality_penalty, PENALTY_CAPS.price_quality)
            /\ WithinCap(components.shop_penalty, PENALTY_CAPS.shop)

\* C17 (unknown cuisine): a record of cuisine "Other" is scored with a
\* cuisine_rarity component and a specificity component of exactly 0,
\* whatever the cuisine counts of its commune are.
C17_UnknownCuisineContributesZero ==
    Called /\ Last.restaurant.cuisine = "Other" =>
        /\ Last.breakdown.components.rarity_bonus = 0
        /\ Last.breakdown.components.specificity_bonus = 0

\* C18 (tourist-trap scenario): a record in the Rue des Bouchers neighborhood
\* with rating 3.9 and 3000 reviews is scored with a tourist-trap component
\* between -0.15 and -0.10.
C18_TouristTrapScenario ==
    Called /\ Last.breakdown.neighborhood = "Rue des Bouchers"
           /\ Last.restaurant.rating = 39 /\ Last.restaurant.review_count = 3000 =>
        /\ -1500 <= Last.breakdown.components.tourist_penalty
        /\ Last.breakdown.components.tourist_penalty <= -1000

----------------------------------------------------------------------------
(* THE QUERY SURFACE: PROPERTIES *)

\* A request has been answered.
Answered == response # <<>>

\* C19 (pagination ceiling): a response of an endpoint that returns restaurant
\* records holds at most 500 records, whatever the limit and the filters of
\* the request.
C19_PaginationCeiling ==
    Answered /\ response[1].body.status = 200 =>
        response[1].body.records.count <= LIMIT_CEILING


\* The corpus is unfit: no corpus file, or a frame without the columns of the
\* reranker.
UnfitCorpus == ~Loaded.loaded \/ ~(RerankerColumns \subseteq Loaded.data.columns)

\* The error messages that name the upstream stage to run.
UnavailableHints ==
    {"No data available. Run the scraper first.",
     "Brussels reranking not available. Run brussels_reranking.py first."}

\* C20 (unfit corpus): every request against an unfit corpus (no corpus file,
\* or predictions without the reranker's columns) is answered with a structured
\* "unavailable" status whose message names the upstream stage to run; it is
\* never answered with records and never ends in an unhandled error.
C20_UnfitCorpusUnavailable ==
    Answered /\ UnfitCorpus =>
        /\ response[1].body.status = 404
        /\ response[1].body.error \in UnavailableHints

\* The parameters of an answered request whose value is not valid.
InvalidFields(r) ==
    r.malformed
    \cup (IF r.args.guide \notin GuideValues \cup {None} THEN {"guide"} ELSE {})
    \cup (IF r.args.sort_by \notin SortValues THEN {"sort_by"} ELSE {})

\* C21 (invalid filter value): a request with an invalid filter value
\* (non-numeric min_rating, min_reviews or price_level, a guide or a sort order
\* outside its closed set) to a fit corpus is answered with a structured
\* "invalid argument" response that names an offending field.
C21_InvalidArgumentNamed ==
    Answered /\ ~UnfitCorpus /\ InvalidFields(response[1].request) # {} =>
        /\ response[1].body.status = 400
        /\ "field" \in DOMAIN response[1].body
        /\ response[1].body.field \in InvalidFields(response[1].request)

\* The rows of the frame served.
ServedRow(id) ==
    CHOOSE row \in {Loaded.data.rows[k] : k \in 1..Len(Loaded.data.rows)} : row.id = id

\* The parsed opening hours of a row confirm that it is open on the day.
ConfirmedOpen(opening_hours, day) ==
    /\ opening_hours.kind = "week"
    /\ \E k \in 1..Len(opening_hours.days) :
          DayNames[k] = day /\ ~opening_hours.days[k].closed

\* C22 (open_day filter): when a request to /api/restaurants sets open_day to a
\* weekday, every record of the response has parsed opening hours that confirm
\* it is open on that weekday; a record with missing or unparseable hours is
\* not returned.
C22_OpenDayConfirmed ==
    Answered /\ response[1].request.endpoint = "/api/restaurants"
             /\ response[1].body.status = 200
             /\ response[1].request.args.open_day \in Range(DayNames) =>
        \A id \in response[1].body.records.ids :
            ConfirmedOpen(ServedRow(id).opening_hours, response[1].request.args.open_day)

\* C24 (null, never NaN): no record of a response holds a NaN value; a missing
\* optional field is serialized as null.
C24_NullNeverNaN ==
    Answered /\ response[1].body.status = 200 => response[1].body.records.nan = {}

----------------------------------------------------------------------------
(* THE QUERY SURFACE UNDER CONCURRENT REQUESTS: PROPERTIES *)

\* C23 (immutable snapshot): serving requests never changes the corpus the
\* application holds: the cached frame is the frame every request thread was
\* given a copy of when load_data loaded or returned it, whatever requests are
\* served in between.
C23_ImmutableSnapshot ==
    thread # NoThreads =>
        \A t \in Threads : thread[t].df.loaded => cached_data = thread[t].df

----------------------------------------------------------------------------
(* THE PARALLEL REVIEW SCRAPER: PROPERTIES *)

\* The scraper runs.
Scraping == scraper # NoScraper

\* The workers that have taken a restaurant off the queue and have not yet
\* finished with it.
InFlight == {w \in Workers : worker[w].restaurant # 0}

\* C25 (bounded concurrency): at every moment at most NUM_WORKERS restaurants
\* are in flight, every restaurant in flight is neither in the queue nor with
\* a second worker.
C25_BoundedConcurrency ==
    Scraping =>
        /\ Cardinality({worker[w].restaurant : w \in InFlight}) <= NUM_WORKERS
        /\ \A v, w \in InFlight : worker[v].restaurant = worker[w].restaurant => v = w
        /\ \A w \in InFlight : worker[w].restaurant \notin Range(scraper.work_queue)

\* C25: both workers are scraping, each a restaurant of its own.
C25_Witness ==
    /\ Scraping
    /\ \A w \in Workers : worker[w].pc = "scrape"
    /\ worker[0].restaurant # worker[1].restaurant

\* C26 (exponential backoff): a worker that has ended its attempts on a
\* restaurant with a failed result has made MAX_RETRIES retries, and has waited
\* RETRY_DELAY_BASE * 2^attempt before retry number attempt.
C26_BackoffBeforeGivingUp ==
    Scraping =>
        \A w \in Workers :
            worker[w].result # <<>> /\ ~Succeeded(worker[w].result[1]) =>
                /\ worker[w].attempt = MAX_RETRIES
                /\ worker[w].slept = [k \in 1..MAX_RETRIES |-> RETRY_DELAY_BASE * (2 ^ (k - 1))]

\* C28 (state mutations under the lock): while a worker is inside
\* save_scrape_state, between its copy of the state and the end of its
\* json.dump, the shared state is the one it copied: no other worker changes
\* in_progress, completed or failed in the meantime.
C28_SaveSeesNoMutation ==
    Scraping =>
        \A w \in Workers : worker[w].pc = "dump" => scraper.state = worker[w].copy[1]

\* C29 (disjoint collections): the completed names, the failed names and the
\* names in progress are pairwise disjoint.
C29_DisjointCollections ==
    Scraping =>
        /\ scraper.state.completed \cap DOMAIN scraper.state.failed = {}
        /\ scraper.state.completed \cap DOMAIN scraper.state.in_progress = {}
        /\ DOMAIN scraper.state.failed \cap DOMAIN scraper.state.in_progress = {}

\* All workers have stopped.
AllStopped == Scraping /\ \A w \in Workers : worker[w].pc = "stopped"

\* C30 (nothing left in progress): once all workers have stopped, no restaurant
\* is left in in_progress: each one taken off the queue was recorded as
\* completed or failed.
C30_NothingLeftInProgress ==
    AllStopped => DOMAIN scraper.state.in_progress = {}

----------------------------------------------------------------------------
(* THE RAW-RECORD STORES: PROPERTIES *)

\* No two entries of a store have the same key.
UniqueKeys(store, key) ==
    \A i, j \in 1..Len(store) : store[i][key] = store[j][key] => i = j

\* thread_safe_save_result as one write.
SaveOnce(results_cache, result) ==
    SaveEntry(results_cache, result, result.name \in ExistingNames(results_cache))

\* C27 (idempotent writes): the results file and the places file never hold two
\* entries of the same key, also when two workers save at once; saving a
\* result a second time leaves the results as the first save left them, and
\* merging the same new places a second time leaves the places file as it is.
C27_IdempotentWrites ==
    Scraping =>
        /\ UniqueKeys(scraper.results_cache, "name")
        /\ scraper.output_file = scraper.results_cache
        /\ UniqueKeys(places, "id")
        /\ \A w \in Workers :
              SaveOnce(SaveOnce(scraper.results_cache, worker[w].result[1]), worker[w].result[1])
                 = SaveOnce(scraper.results_cache, worker[w].result[1])
        /\ unit_call # <<>> => merge_with_existing(places, unit_call[1].new_data) = places

\* C27: both workers have saved a result of the same name, the second over the
\* first, and a commune scrape has been merged into places stored before.
C27_Witness ==
    /\ Scraping
    /\ \A w \in Workers : worker[w].pc = "mark_done"
    /\ worker[0].result[1].name = worker[1].result[1].name
    /\ worker[0].result # worker[1].result
    /\ unit_call # <<>>
    /\ Len(places) > Len(unit_call[1].new_data)

====
